---- MODULE Spec2Model ----
(***************************************************************************)
(* Message routing and conversation assignment of the customer-service     *)
(* platform: the persisted tables the engine reads and writes              *)
(* (Conversation, ConversationAgent, Contact, User.isOnline, Chatbot),     *)
(* the in-memory processingQueue of the MessageProcessor, and one action   *)
(* per handler.  Spec, SpecFail, SpecAssign and SpecLifecycle run every    *)
(* handler to completion, one at a time; SpecTake and SpecRoute interleave *)
(* handlers at their await points.                                         *)
(* The campaign dispatcher (SpecCampaign, SpecDispatch, SpecStart), the     *)
(* socket presence tracking (SpecPresence) and the omnichannel contact     *)
(* resolution (SpecContacts) have their own state and specifications.      *)
(***************************************************************************)
EXTENDS Integers, Sequences, FiniteSets, TLC

\* ------------------------------------------------------------- bounds
\* Each specification caps the rows ever created in the two growing tables.
MaxConvs == 2        \* Conversation rows
MaxRows == 2         \* ConversationAgent rows
LoadRows == 3        \* ConversationAgent rows, SpecLoad
MaxRuns == 2         \* handlers in flight at once (SpecTake, SpecRoute, SpecCampaign)
MaxRecipients == 25  \* recipients of a campaign
MaxFailures == 2     \* sends that fail in one campaign
MaxStarts == 2       \* successful startCampaign calls on one campaign
MaxSockets == 3      \* socket ids
MaxContacts == 2     \* Contact rows (SpecContacts)
MaxMessages == 1     \* Message rows (SpecBot)
MaxSent == 2         \* Message rows written by agents' sends (SpecMessages)
MaxCampaigns == 2    \* Campaign rows with a send time (SpecSweep)
MaxNow == 2          \* Clock readings of the scheduled sweep (SpecSweep)

\* ------------------------------------------------------ fixture data
\* Users of the store.  1..3 are ACTIVE users of company 1 who connect and
\* disconnect; 4 is an online agent of another company; 5 is an agent of
\* company 1 whose account was deactivated while it was online.
Users == 1..5
Company == 1
Phones == 1..2
NoOne == 0
NoConv == 0

\* Department rows: 1 and 2 belong to company 1, 3 to another company, and no
\* row has id 4.
Departments == 1..3
DepartmentIds == 1..4
NoDepartment == 0
DepartmentCompany(d) == IF d = 3 THEN 2 ELSE Company

UserRole(u) ==
    CASE u = 1 -> "AGENT"
      [] u = 2 -> "MANAGER"
      [] u = 3 -> "ADMIN"
      [] OTHER -> "AGENT"

UserCompany(u) == IF u = 4 THEN 2 ELSE Company

UserStatus(u) == IF u = 5 THEN "INACTIVE" ELSE "ACTIVE"

\* The users that authenticate in the model: socketAuth and authenticateToken
\* admit ACTIVE users only, and every conversation belongs to company 1.
Staff == {u \in Users : UserCompany(u) = Company /\ UserStatus(u) = "ACTIVE"}

\* Clock readings <<weekday, hour>> handed to isBusinessHours (weekday names
\* without accents).
Clocks == {<<"segunda-feira", 8>>, <<"segunda-feira", 9>>, <<"segunda-feira", 17>>,
           <<"segunda-feira", 18>>, <<"sabado", 10>>}

VARIABLES
    isOnline,            \* User.isOnline, the persisted flag: [Users -> BOOLEAN]
    chatbotActive,       \* company 1 has a Chatbot row with isActive = true
    contacts,            \* Contact rows, keyed by their unique phone
    conversations,       \* Conversation rows; the index is the id
    conversationAgents,  \* ConversationAgent rows; the index is the id
    processingQueue,     \* MessageProcessor.processingQueue: set of conversation ids
    lastFound,           \* per contact: the conversation the last inbound find-or-create
                         \* returned since the last close on that contact (0: none)
    last,                \* what the most recent handler did (its inputs and outcome)
    procs,               \* handlers in flight, suspended at an await (SpecTake, SpecRoute)
    bound,               \* the specification's caps: [convs, rows], never changed
    campaign,            \* the Campaign row: [status, total, results]
    runningCampaigns,    \* CampaignService.runningCampaigns: set of campaign ids
    loops,               \* processCampaign executions, suspended at an await
    accountConnected,    \* the company has a WhatsAppAccount with status CONNECTED
    history,             \* history of the campaign: [starts, cancelled]
    userSockets,         \* PresenceManager.userSockets: user id -> set of socket ids
    socketUsers,         \* PresenceManager.socketUsers: socket id -> user id
    liveConns,           \* history: <<user, socket>> pairs connected and not yet disconnected
    handlers,            \* per socket: where its connection or disconnect handler stands
    contactTable,        \* Contact rows with their identity columns (omnichannel)
    lastResolve,         \* the most recent normalizeContact call and the id it returned
    messages,            \* Message rows
    delivered,           \* texts handed to whatsappService.sendMessage, in order
    pipeline,            \* the most recent chatbot pipeline run: inputs, reply, calls
    ordering,            \* message:send handlers in flight and the order in which
                         \* sends were accepted, persisted and emitted
    sweep                \* the scheduled campaigns of the sweep: [rows, now, found]

\* The state of the campaign dispatcher.
campaignVars == <<campaign, runningCampaigns, loops, accountConnected, history, sweep>>

\* The state the routing and assignment handlers never touch.
\* The state of the realtime layer's presence tracking.
presenceVars == <<userSockets, socketUsers, liveConns, handlers>>

\* The Contact table as the omnichannel contact resolution sees it.
contactVars == <<contactTable, lastResolve>>

\* The Message table, the channel transport and the chatbot pipeline.
botVars == <<messages, delivered, pipeline, ordering>>

aux == <<campaignVars, presenceVars, contactVars, botVars>>

vars == <<isOnline, chatbotActive, contacts, conversations, conversationAgents,
          processingQueue, lastFound, last, procs, bound, aux>>

store == <<isOnline, chatbotActive, contacts, conversations, conversationAgents>>

\* --------------------------------------------------- store primitives
ActiveStatuses == {"OPEN", "PENDING"}

ConvIds == DOMAIN conversations

\* prisma.conversationAgent rows with isActive = true of one conversation
ActiveAssignments(ca, c) ==
    {i \in DOMAIN ca : ca[i].conversationId = c /\ ca[i].isActive}

\* prisma.conversationAgent.deleteMany({where: {conversationId}})
DeleteAssignments(ca, c) ==
    SelectSeq(ca, LAMBDA row : row.conversationId # c)

\* prisma.conversationAgent.updateMany({where: {conversationId}, data: {isActive: false}})
DeactivateAssignments(ca, c) ==
    [i \in DOMAIN ca |->
        IF ca[i].conversationId = c THEN [ca[i] EXCEPT !.isActive = FALSE] ELSE ca[i]]

\* prisma.conversationAgent.create({data: {userId, conversationId, isActive: true}})
CreateAssignment(ca, u, c) ==
    Append(ca, [userId |-> u, conversationId |-> c, isActive |-> TRUE])

\* prisma.conversation.update({where: {id}, data: {status}})
UpdateStatus(cv, c, s) == [cv EXCEPT ![c].status = s]

\* prisma.conversation.create({data: {contactId, companyId, status: 'OPEN', ...}})
CreateConversation(cv, contact) ==
    Append(cv, [contactId |-> contact, companyId |-> Company, status |-> "OPEN",
                departmentId |-> NoDepartment, channels |-> <<>>])

\* The rows prisma.conversation.findFirst may return for
\* {contactId, companyId, status: {in: ['OPEN', 'PENDING']}}: the query has no
\* orderBy, so any matching row can be the first.
FindActiveConversations(cv, contact) ==
    {c \in DOMAIN cv : /\ cv[c].contactId = contact
                       /\ cv[c].companyId = Company
                       /\ cv[c].status \in ActiveStatuses}

\* ------------------------------------------------------- observation
\* What the most recent handler did.  `conv` is the conversation a successful
\* handler acted on; the remaining fields are written by a routing run only:
\* its clock reading, the store call that failed, its bot decision, its outcome,
\* the agent findAvailableAgent selected and the event notifyCompany emitted
\* (conversation:assigned carries the selected agent's id).
Obs(op, c, ok) ==
    [op |-> op, conv |-> c, ok |-> ok, bh |-> FALSE, fail |-> "none",
     useBot |-> FALSE, outcome |-> "none", agent |-> NoOne, event |-> "none"]

\* A handler that answered with an error and changed nothing.
Rejected == Obs("rejected", NoConv, FALSE)

\* A slot of procs with no handler in flight.
Idle == [kind |-> "idle", pc |-> "idle", conv |-> NoConv, user |-> NoOne]

\* ------------------------------------------------- presence (socket.js)
\* io.on('connection'): the persisted flag is set once the user's socket is up.
Connect(u) ==
    /\ u \in Staff
    /\ ~isOnline[u]
    /\ isOnline' = [isOnline EXCEPT ![u] = TRUE]
    /\ last' = Obs("connect", NoConv, TRUE)
    /\ UNCHANGED <<chatbotActive, contacts, conversations, conversationAgents,
                   processingQueue, lastFound, procs, bound, aux>>

\* socket.on('disconnect') of the user's last socket: the flag is cleared.
Disconnect(u) ==
    /\ u \in Staff
    /\ isOnline[u]
    /\ isOnline' = [isOnline EXCEPT ![u] = FALSE]
    /\ last' = Obs("disconnect", NoConv, TRUE)
    /\ UNCHANGED <<chatbotActive, contacts, conversations, conversationAgents,
                   processingQueue, lastFound, procs, bound, aux>>

\* PUT /api/chatbots/:id with isActive: the company's chatbot is switched on or off.
SetChatbot(b) ==
    /\ chatbotActive # b
    /\ chatbotActive' = b
    /\ last' = Obs("chatbot", NoConv, TRUE)
    /\ UNCHANGED <<isOnline, contacts, conversations, conversationAgents,
                   processingQueue, lastFound, procs, bound, aux>>

\* ------------------------------------- assignment handlers, run whole
\* socket.on('conversation:take') of a connected user.
TakeConversation(u, c) ==
    /\ u \in Staff /\ isOnline[u]
    /\ c \in 1..bound.convs
    /\ IF c \notin ConvIds \/ ActiveAssignments(conversationAgents, c) # {}
       THEN /\ last' = Rejected
            /\ UNCHANGED <<conversations, conversationAgents>>
       ELSE /\ Len(conversationAgents) < bound.rows
            /\ conversationAgents' = CreateAssignment(conversationAgents, u, c)
            /\ conversations' = UpdateStatus(conversations, c, "OPEN")
            /\ last' = Obs("take", c, TRUE)
    /\ UNCHANGED <<isOnline, chatbotActive, contacts, processingQueue, lastFound, procs, bound, aux>>

\* POST /conversations/:id/assign of routes/chat.js (first version): agentId
\* defaults to the caller; the agent must be an ACTIVE user of the company.
AssignChat(caller, agentId, c) ==
    /\ caller \in Staff
    /\ agentId \in Users \cup {NoOne}
    /\ c \in 1..bound.convs
    /\ LET agent == IF agentId = NoOne THEN caller ELSE agentId IN
       IF \/ c \notin ConvIds
          \/ UserCompany(agent) # Company
          \/ UserStatus(agent) # "ACTIVE"
       THEN /\ last' = Rejected
            /\ UNCHANGED <<conversations, conversationAgents>>
       ELSE /\ Len(conversationAgents) < bound.rows
            /\ conversationAgents' =
                   CreateAssignment(DeactivateAssignments(conversationAgents, c), agent, c)
            /\ conversations' = UpdateStatus(conversations, c, "OPEN")
            /\ last' = Obs("assign", c, TRUE)
    /\ UNCHANGED <<isOnline, chatbotActive, contacts, processingQueue, lastFound, procs, bound, aux>>

\* POST /conversations/:id/assign of routes/chat.js (second version): only
\* ADMIN, MANAGER or OWNER may call; refused when userId is already assigned;
\* the row is created with the column default of isActive (true) and the
\* status becomes OPEN only from PENDING.
AssignChat2(caller, userId, c) ==
    /\ caller \in Staff
    /\ userId \in Users
    /\ c \in 1..bound.convs
    /\ IF \/ UserRole(caller) \notin {"ADMIN", "MANAGER", "OWNER"}
          \/ c \notin ConvIds
          \/ UserCompany(userId) # Company
          \/ \E i \in ActiveAssignments(conversationAgents, c) :
                 conversationAgents[i].userId = userId
       THEN /\ last' = Rejected
            /\ UNCHANGED <<conversations, conversationAgents>>
       ELSE /\ Len(conversationAgents) < bound.rows
            /\ conversationAgents' = CreateAssignment(conversationAgents, userId, c)
            /\ conversations' =
                   IF conversations[c].status = "PENDING"
                   THEN UpdateStatus(conversations, c, "OPEN")
                   ELSE conversations
            /\ last' = Obs("assign2", c, TRUE)
    /\ UNCHANGED <<isOnline, chatbotActive, contacts, processingQueue, lastFound, procs, bound, aux>>

\* AutomationService.executeAssignAgentAction with parameters.agent_id; without
\* an agent_id the action throws (no agent available).
ExecuteAssignAgentAction(agentId, c) ==
    /\ agentId \in Users \cup {NoOne}
    /\ c \in ConvIds
    /\ IF agentId = NoOne
       THEN /\ last' = Rejected
            /\ UNCHANGED <<conversations, conversationAgents>>
       ELSE /\ Len(conversationAgents) < bound.rows
            /\ conversationAgents' = CreateAssignment(conversationAgents, agentId, c)
            /\ conversations' = UpdateStatus(conversations, c, "OPEN")
            /\ last' = Obs("automation", c, TRUE)
    /\ UNCHANGED <<isOnline, chatbotActive, contacts, processingQueue, lastFound, procs, bound, aux>>

\* close: socket.on('conversation:close') and both POST /conversations/:id/close.
\* `via` names the entry point; only the second HTTP version checks that an
\* AGENT caller is assigned.
CloseConversation(u, c, via) ==
    /\ u \in Staff
    /\ via \in {"socket", "chat", "chat2"}
    /\ via = "socket" => isOnline[u]
    /\ c \in 1..bound.convs
    /\ IF \/ c \notin ConvIds
          \/ /\ via = "chat2"
             /\ UserRole(u) = "AGENT"
             /\ ~\E i \in ActiveAssignments(conversationAgents, c) :
                    conversationAgents[i].userId = u
       THEN /\ last' = Rejected
            /\ UNCHANGED <<conversations, conversationAgents, lastFound>>
       ELSE /\ conversations' = UpdateStatus(conversations, c, "CLOSED")
            /\ conversationAgents' = DeactivateAssignments(conversationAgents, c)
            /\ lastFound' = [lastFound EXCEPT ![conversations[c].contactId] = NoConv]
            /\ last' = Obs("close", c, TRUE)
    /\ UNCHANGED <<isOnline, chatbotActive, contacts, processingQueue, procs, bound, aux>>

\* POST /conversations/:id/reopen
ReopenConversation(u, c) ==
    /\ u \in Staff
    /\ c \in 1..bound.convs
    /\ IF c \notin ConvIds
       THEN /\ last' = Rejected
            /\ UNCHANGED conversations
       ELSE /\ conversations' = UpdateStatus(conversations, c, "PENDING")
            /\ last' = Obs("reopen", c, TRUE)
    /\ UNCHANGED <<isOnline, chatbotActive, contacts, conversationAgents,
                   processingQueue, lastFound, procs, bound, aux>>

\* prisma.department.findUnique where the company is not part of the key.
FindDepartmentAnyCompany(d, company) == d \in Departments

\* prisma.department.findUnique({where: {id: departmentId, companyId}}) finds a row
FindDepartment(d, company) ==
    d \in Departments /\ DepartmentCompany(d) = company

\* POST /conversations/:id/transfer
TransferConversation(u, c, d) ==
    /\ u \in Staff
    /\ c \in 1..bound.convs
    /\ d \in DepartmentIds
    /\ IF c \notin ConvIds \/ ~FindDepartment(d, UserCompany(u))
       THEN /\ last' = Rejected
            /\ UNCHANGED <<conversations, conversationAgents>>
       ELSE /\ conversationAgents' = DeactivateAssignments(conversationAgents, c)
            /\ conversations' = [conversations EXCEPT ![c].departmentId = d,
                                                      ![c].status = "PENDING"]
            /\ last' = [Obs("transfer", c, TRUE) EXCEPT
                           !.event = "conversation:transferred"]
    /\ UNCHANGED <<isOnline, chatbotActive, contacts, processingQueue, lastFound,
                   procs, bound, aux>>

\* ------------------------------------------ inbound message (whatsapp.js)
\* WhatsAppService.handleIncomingMessage for a message from `phone`: find or
\* create the Contact, then find the OPEN/PENDING conversation of the contact
\* or create one.  The handler then calls processIncomingMessage (line 258)
\* through a reference detached from the MessageProcessor instance: the call
\* throws before any store access and the handler's catch logs it, so it
\* changes nothing here.  The routing method invoked on its instance is
\* ProcessIncomingMessage below.
HandleIncomingMessage(phone, found) ==
    /\ phone \in Phones
    /\ contacts' = contacts \cup {phone}
    /\ LET active == FindActiveConversations(conversations, phone) IN
       IF active # {}
       THEN /\ found \in active
            /\ UNCHANGED conversations
            /\ lastFound' = [lastFound EXCEPT ![phone] = found]
            /\ last' = Obs("inbound", found, TRUE)
       ELSE /\ found = Len(conversations) + 1
            /\ found <= bound.convs
            /\ conversations' = CreateConversation(conversations, phone)
            /\ lastFound' = [lastFound EXCEPT ![phone] = found]
            /\ last' = Obs("inbound", found, TRUE)
    /\ UNCHANGED <<isOnline, chatbotActive, conversationAgents, processingQueue, procs, bound, aux>>

\* ------------------------------------------- routing (messageProcessor.js)
\* helpers.isBusinessHours: Monday to Friday, 9h to 18h, on the clock reading.
IsBusinessHours(weekday, hour) ==
    LET isWeekday == weekday \notin {"sabado", "domingo"}
        isBusinessHour == hour >= 9 /\ hour < 18
    IN  isWeekday /\ isBusinessHour

\* The user.findMany of shouldUseChatbot: online ACTIVE users of the company
\* with role AGENT, MANAGER or ADMIN.
OnlineAgents(companyId) ==
    {u \in Users : /\ UserCompany(u) = companyId
                   /\ isOnline[u]
                   /\ UserRole(u) \in {"AGENT", "MANAGER", "ADMIN"}
                   /\ UserStatus(u) = "ACTIVE"}

\* MessageProcessor.isConversationAssigned
IsConversationAssigned(ca, c) == ActiveAssignments(ca, c) # {}

\* shouldUseChatbot with the assignment test left out of the || chain.
ShouldUseChatbotNoUnassigned(onlineAgentsLength, hasActiveChatbot, businessHours, isUnassigned) ==
    hasActiveChatbot /\ (onlineAgentsLength = 0 \/ ~businessHours)

\* The value shouldUseChatbot returns when its store calls succeed.
ShouldUseChatbot(onlineAgentsLength, hasActiveChatbot, businessHours, isUnassigned) ==
    hasActiveChatbot /\ (onlineAgentsLength = 0 \/ ~businessHours \/ isUnassigned)

\* The user.findMany of findAvailableAgent: online ACTIVE users of the company
\* with role AGENT or MANAGER.
AvailableAgents(companyId) ==
    {u \in Users : /\ UserCompany(u) = companyId
                   /\ isOnline[u]
                   /\ UserStatus(u) = "ACTIVE"
                   /\ UserRole(u) \in {"AGENT", "MANAGER"}}

\* The lists findMany may return for a set of rows: the query has no orderBy.
ResultOrders(S) ==
    {f \in [1..Cardinality(S) -> S] : \A x \in S : \E i \in DOMAIN f : f[i] = x}

\* agent.agents.length: the user's rows with isActive = true.  The nested
\* where on conversation.status filters the conversation included in each
\* row, not the rows, so rows of CLOSED conversations are counted.
AgentsLength(ca, u) ==
    Cardinality({i \in DOMAIN ca : ca[i].userId = u /\ ca[i].isActive})

\* agents.reduce((prev, current) =>
\*     prev.agents.length < current.agents.length ? prev : current)
RECURSIVE ReduceAgents(_, _, _, _)
ReduceAgents(ca, agents, i, prev) ==
    IF i > Len(agents) THEN prev
    ELSE ReduceAgents(ca, agents, i + 1,
                      IF AgentsLength(ca, prev) < AgentsLength(ca, agents[i])
                      THEN prev ELSE agents[i])

\* MessageProcessor.findAvailableAgent on the list `agents` the store returned.
FindAvailableAgent(ca, agents) ==
    IF Len(agents) = 0 THEN NoOne ELSE ReduceAgents(ca, agents, 2, agents[1])

\* MessageProcessor.assignToAgent: the tables it leaves, its outcome and the
\* agent it selected.  `fail` names the store call that throws, if any; the
\* catch of assignToAgent logs the error and returns.
AssignToAgent(cv, ca, c, agents, fail) ==
    LET availableAgent == FindAvailableAgent(ca, agents) IN
    IF fail = "agents"
    THEN [cv |-> cv, ca |-> ca, outcome |-> "error", agent |-> NoOne, event |-> "none"]
    ELSE IF availableAgent # NoOne
    THEN IF fail = "create"
         THEN [cv |-> cv, ca |-> ca, outcome |-> "error", agent |-> availableAgent,
               event |-> "none"]
         ELSE IF fail = "status"
         THEN [cv |-> cv, ca |-> CreateAssignment(ca, availableAgent, c),
               outcome |-> "error", agent |-> availableAgent, event |-> "none"]
         ELSE [cv |-> UpdateStatus(cv, c, "OPEN"),
               ca |-> CreateAssignment(ca, availableAgent, c),
               outcome |-> "assigned", agent |-> availableAgent,
               event |-> "conversation:assigned"]
    ELSE IF fail = "status"
         THEN [cv |-> cv, ca |-> ca, outcome |-> "error", agent |-> NoOne, event |-> "none"]
         ELSE [cv |-> UpdateStatus(cv, c, "PENDING"), ca |-> ca,
               outcome |-> "pending", agent |-> NoOne, event |-> "conversation:pending"]

FailPoints == {"none", "online", "agents", "create", "status"}
AiOutcomes == {"reply", "transfer", "error"}

\* MessageProcessor.processIncomingMessage on conversation c, run whole; c is
\* a conversation the inbound handler found or created, so OPEN or PENDING.
\* `clock` is the clock reading, `fail` the store call that throws ("online":
\* a lookup of shouldUseChatbot, which then returns false), `ai` what
\* generateAIResponse yields (a reply, a reply or message with a transfer
\* keyword, or a failure, which sets shouldTransferToAgent), `agents` the
\* list findAvailableAgent's query returns.
ProcessIncomingMessage(c, clock, fail) ==
    /\ c \in ConvIds
    /\ conversations[c].status \in ActiveStatuses
    /\ c \notin processingQueue
    /\ LET bh == IsBusinessHours(clock[1], clock[2])
           shouldUseBot ==
               IF fail = "online" THEN FALSE
               ELSE ShouldUseChatbot(
                        Cardinality(OnlineAgents(conversations[c].companyId)),
                        chatbotActive, bh,
                        ~IsConversationAssigned(conversationAgents, c))
           \* the clock is read only when the || chain reaches isBusinessHours()
           bhRead == /\ fail # "online"
                     /\ chatbotActive
                     /\ OnlineAgents(conversations[c].companyId) # {}
       IN
       /\ bhRead \/ clock = <<"segunda-feira", 9>>
       /\ \E ai \in IF shouldUseBot THEN AiOutcomes ELSE {"none"} :
          IF shouldUseBot /\ ai = "reply"
          THEN \* processChatbotResponse: sendBotMessage
               /\ fail = "none"
               /\ UNCHANGED <<conversations, conversationAgents>>
               /\ last' = [Obs("route", c, TRUE) EXCEPT
                              !.bh = bh, !.fail = fail, !.useBot = TRUE, !.outcome = "bot"]
          ELSE \* assignToAgent, directly or from processChatbotResponse
               \E agents \in ResultOrders(AvailableAgents(conversations[c].companyId)) :
                  LET r == AssignToAgent(conversations, conversationAgents, c, agents, fail)
                  IN  /\ fail = "create" => Len(agents) > 0
                      /\ Len(r.ca) <= bound.rows
                      /\ conversations' = r.cv
                      /\ conversationAgents' = r.ca
                      /\ last' = [Obs("route", c, TRUE) EXCEPT
                                     !.bh = bh, !.fail = fail, !.useBot = shouldUseBot,
                                     !.outcome = r.outcome, !.agent = r.agent,
                                     !.event = r.event]
    /\ UNCHANGED <<isOnline, chatbotActive, contacts, processingQueue, lastFound, procs, bound, aux>>

\* ------------------------------- handlers interleaved at their awaits
\* No handler is in flight.
Settled == \A i \in DOMAIN procs : procs[i] = Idle

\* Handlers in flight that have yet to create their ConversationAgent row.
Reserved ==
    Cardinality({i \in DOMAIN procs : procs[i].pc \in {"deactivate", "create"}})

\* conversation:take, first await: findUnique of the conversation with its
\* active rows; the handler answers with an error or goes on to create.
TakeFind(i, u, c) ==
    /\ procs[i] = Idle
    /\ u \in Staff /\ isOnline[u]
    /\ c \in 1..bound.convs
    /\ IF c \notin ConvIds \/ ActiveAssignments(conversationAgents, c) # {}
       THEN /\ last' = Rejected
            /\ UNCHANGED procs
       ELSE /\ Len(conversationAgents) + Reserved < bound.rows
            /\ procs' = [procs EXCEPT ![i] =
                            [kind |-> "take", pc |-> "create", conv |-> c, user |-> u]]
            /\ UNCHANGED last
    /\ UNCHANGED <<store, processingQueue, lastFound, bound, aux>>

\* conversation:take, second await: conversationAgent.create
TakeCreate(i) ==
    /\ procs[i].kind = "take" /\ procs[i].pc = "create"
    /\ conversationAgents' =
           CreateAssignment(conversationAgents, procs[i].user, procs[i].conv)
    /\ procs' = [procs EXCEPT ![i].pc = "status"]
    /\ UNCHANGED <<isOnline, chatbotActive, contacts, conversations,
                   processingQueue, lastFound, last, bound, aux>>

\* conversation:take, third await: conversation.update to OPEN, then the emits.
TakeUpdate(i) ==
    /\ procs[i].kind = "take" /\ procs[i].pc = "status"
    /\ conversations' = UpdateStatus(conversations, procs[i].conv, "OPEN")
    /\ procs' = [procs EXCEPT ![i] = Idle]
    /\ last' = Obs("take", procs[i].conv, TRUE)
    /\ UNCHANGED <<isOnline, chatbotActive, contacts, conversationAgents,
                   processingQueue, lastFound, bound, aux>>

\* POST /conversations/:id/assign (first version), the two findFirst reads.
AssignFind(i, caller, agentId, c) ==
    /\ procs[i] = Idle
    /\ caller \in Staff
    /\ agentId \in Users \cup {NoOne}
    /\ c \in 1..bound.convs
    /\ LET agent == IF agentId = NoOne THEN caller ELSE agentId IN
       IF \/ c \notin ConvIds
          \/ UserCompany(agent) # Company
          \/ UserStatus(agent) # "ACTIVE"
       THEN /\ last' = Rejected
            /\ UNCHANGED procs
       ELSE /\ Len(conversationAgents) + Reserved < bound.rows
            /\ procs' = [procs EXCEPT ![i] =
                            [kind |-> "assign", pc |-> "deactivate", conv |-> c, user |-> agent]]
            /\ UNCHANGED last
    /\ UNCHANGED <<store, processingQueue, lastFound, bound, aux>>

\* POST /conversations/:id/assign, conversationAgent.updateMany
AssignDeactivate(i) ==
    /\ procs[i].kind = "assign" /\ procs[i].pc = "deactivate"
    /\ conversationAgents' = DeactivateAssignments(conversationAgents, procs[i].conv)
    /\ procs' = [procs EXCEPT ![i].pc = "create"]
    /\ UNCHANGED <<isOnline, chatbotActive, contacts, conversations,
                   processingQueue, lastFound, last, bound, aux>>

\* POST /conversations/:id/assign, conversationAgent.create
AssignCreate(i) ==
    /\ procs[i].kind = "assign" /\ procs[i].pc = "create"
    /\ conversationAgents' =
           CreateAssignment(conversationAgents, procs[i].user, procs[i].conv)
    /\ procs' = [procs EXCEPT ![i].pc = "status"]
    /\ UNCHANGED <<isOnline, chatbotActive, contacts, conversations,
                   processingQueue, lastFound, last, bound, aux>>

\* POST /conversations/:id/assign, conversation.update to OPEN and the response.
AssignUpdate(i) ==
    /\ procs[i].kind = "assign" /\ procs[i].pc = "status"
    /\ conversations' = UpdateStatus(conversations, procs[i].conv, "OPEN")
    /\ procs' = [procs EXCEPT ![i] = Idle]
    /\ last' = Obs("assign", procs[i].conv, TRUE)
    /\ UNCHANGED <<isOnline, chatbotActive, contacts, conversationAgents,
                   processingQueue, lastFound, bound, aux>>

\* processIncomingMessage up to its first await.  With the conversation in
\* processingQueue the method returns from inside the try, and the finally
\* block deletes the entry of the run in flight; otherwise the entry is set.
RouteEnter(i, c) ==
    /\ procs[i] = Idle
    /\ c \in ConvIds
    /\ conversations[c].status \in ActiveStatuses
    /\ IF c \in processingQueue
       THEN /\ processingQueue' = processingQueue \ {c}
            /\ last' = Obs("skip", c, TRUE)
            /\ UNCHANGED procs
       ELSE /\ processingQueue' = processingQueue \cup {c}
            /\ procs' = [procs EXCEPT ![i] =
                            [kind |-> "route", pc |-> "decide", conv |-> c, user |-> NoOne]]
            /\ UNCHANGED last
    /\ UNCHANGED <<store, lastFound, bound, aux>>

\* shouldUseChatbot on a weekday morning, and generateAIResponse when the
\* bot is used: the run goes on to sendBotMessage or to assignToAgent.
RouteDecide(i, ai) ==
    /\ procs[i].kind = "route" /\ procs[i].pc = "decide"
    /\ LET c == procs[i].conv
           shouldUseBot ==
               ShouldUseChatbot(
                   Cardinality(OnlineAgents(conversations[c].companyId)),
                   chatbotActive, IsBusinessHours("segunda-feira", 9),
                   ~IsConversationAssigned(conversationAgents, c))
       IN  /\ ai \in IF shouldUseBot THEN AiOutcomes ELSE {"none"}
           /\ procs' = [procs EXCEPT ![i].pc = IF ai = "reply" THEN "bot" ELSE "find"]
    /\ UNCHANGED <<store, processingQueue, lastFound, last, bound, aux>>

\* sendBotMessage, then the finally block of processIncomingMessage.
RouteBot(i) ==
    /\ procs[i].kind = "route" /\ procs[i].pc = "bot"
    /\ processingQueue' = processingQueue \ {procs[i].conv}
    /\ procs' = [procs EXCEPT ![i] = Idle]
    /\ last' = [Obs("route", procs[i].conv, TRUE) EXCEPT
                   !.bh = TRUE, !.useBot = TRUE, !.outcome = "bot"]
    /\ UNCHANGED <<store, lastFound, bound, aux>>

\* assignToAgent: findAvailableAgent on the list `agents` the store returns.
RouteFind(i) ==
    /\ procs[i].kind = "route" /\ procs[i].pc = "find"
    /\ \E agents \in ResultOrders(AvailableAgents(conversations[procs[i].conv].companyId)) :
          LET availableAgent == FindAvailableAgent(conversationAgents, agents) IN
          IF availableAgent # NoOne
          THEN /\ Len(conversationAgents) + Reserved < bound.rows
               /\ procs' = [procs EXCEPT ![i].pc = "create", ![i].user = availableAgent]
          ELSE procs' = [procs EXCEPT ![i].pc = "status"]
    /\ UNCHANGED <<store, processingQueue, lastFound, last, bound, aux>>

\* assignToAgent: conversationAgent.create
RouteCreate(i) ==
    /\ procs[i].kind = "route" /\ procs[i].pc = "create"
    /\ conversationAgents' =
           CreateAssignment(conversationAgents, procs[i].user, procs[i].conv)
    /\ procs' = [procs EXCEPT ![i].pc = "status"]
    /\ UNCHANGED <<isOnline, chatbotActive, contacts, conversations,
                   processingQueue, lastFound, last, bound, aux>>

\* assignToAgent: conversation.update (OPEN with an agent, PENDING without)
\* and the notification, then the finally block of processIncomingMessage.
RouteUpdate(i) ==
    /\ procs[i].kind = "route" /\ procs[i].pc = "status"
    /\ conversations' =
           UpdateStatus(conversations, procs[i].conv,
                        IF procs[i].user # NoOne THEN "OPEN" ELSE "PENDING")
    /\ processingQueue' = processingQueue \ {procs[i].conv}
    /\ procs' = [procs EXCEPT ![i] = Idle]
    /\ last' = [Obs("route", procs[i].conv, TRUE) EXCEPT
                   !.bh = TRUE,
                   !.outcome = IF procs[i].user # NoOne THEN "assigned" ELSE "pending",
                   !.agent = procs[i].user,
                   !.event = IF procs[i].user # NoOne THEN "conversation:assigned"
                             ELSE "conversation:pending"]
    /\ UNCHANGED <<isOnline, chatbotActive, contacts, conversationAgents, lastFound, bound, aux>>

\* whatsapp.js handleIncomingMessage, its routing call for conversation c:
\* `await processIncomingMessage(savedMessage, conversation, account)` with
\* processIncomingMessage taken off the exported MessageProcessor by
\* destructuring.  The method runs without its object: the processingQueue
\* test throws inside the try, the finally block's delete throws again, and
\* the call rejects with a TypeError before any store call; the handler's
\* catch logs it and the message:new emit after the call is skipped.
DetachedProcessIncomingMessage(c) ==
    /\ c \in ConvIds
    /\ conversations[c].status \in ActiveStatuses
    /\ last' = [Obs("route", c, FALSE) EXCEPT !.outcome = "TypeError"]
    /\ UNCHANGED <<store, processingQueue, lastFound, procs, bound, aux>>

\* ------------------------------------------- campaigns (campaignService.js)
\* One campaign is followed; runningCampaigns is keyed by its id.
CampaignId == 1

\* const batchSize = 10
BatchSize == 10

\* The recipient lists a campaign is created with: one that fills a whole
\* number of batches and one that ends in a short batch.
RecipientCounts == {BatchSize, MaxRecipients}

\* recipients[k - 1].phone: the list may name the same phone more than once.
RecipientPhone(k) == ((k - 1) % Cardinality(Phones)) + 1

NoResults == [sent |-> 0, failed |-> 0, errors |-> 0]

\* No Campaign row yet.
NoCampaign == [status |-> "NONE", total |-> 0, results |-> NoResults]

\* A slot of loops with no processCampaign execution in it.  Of a running
\* execution: i is the loop variable of the batch loop, k the position in
\* `recipients` of the next recipient of the current batch, sent/failed/errors
\* its local `results` (errors: the length of results.errors).  The rest is
\* history: j is the number of recipients the execution has processed, batches
\* the sizes of the batches it has finished, stopAt the number of recipients it
\* may still reach once a cancelCampaign has removed it from the registry
\* (-1: not cancelled).
NoLoop == [pc |-> "idle", i |-> 0, k |-> 0, sent |-> 0, failed |-> 0,
           errors |-> 0, j |-> 0, batches |-> <<>>, stopAt |-> -1]

InitCampaign ==
    /\ campaign = NoCampaign
    /\ runningCampaigns = {}
    /\ loops = [l \in 1..MaxRuns |-> NoLoop]
    /\ accountConnected = FALSE
    /\ history = [starts |-> 0, cancelled |-> FALSE]
    /\ sweep = [rows |-> <<>>, now |-> 0, found |-> {}]

\* client.on('ready'): the account row becomes CONNECTED.
AccountReady ==
    /\ ~accountConnected
    /\ accountConnected' = TRUE
    /\ UNCHANGED <<store, processingQueue, lastFound, last, procs, bound, sweep, presenceVars, contactVars, botVars,
                   campaign, runningCampaigns, loops, history>>

\* client.on('disconnected'): the account row becomes DISCONNECTED.
AccountDisconnected ==
    /\ accountConnected
    /\ accountConnected' = FALSE
    /\ UNCHANGED <<store, processingQueue, lastFound, last, procs, bound, sweep, presenceVars, contactVars, botVars,
                   campaign, runningCampaigns, loops, history>>

\* recipients.slice(i, i + batchSize): the position in `recipients` at which
\* the batch that starts at i ends.
BatchEndShort(i, total) == IF i + BatchSize - 1 < total THEN i + BatchSize - 1 ELSE total

BatchEnd(i, total) == IF i + BatchSize < total THEN i + BatchSize ELSE total

FreeLoops == {l \in DOMAIN loops : loops[l].pc = "idle"}

\* startCampaign's checks on the row it read.
StartRejectedSendingOnly == campaign.status \in {"NONE", "SENDING"} \/ ~accountConnected

StartRejected == campaign.status \in {"NONE", "SENDING", "SENT"} \/ ~accountConnected

\* startCampaign after its checks: the SENDING update, then processCampaign up
\* to its first await (the registry entry and the copy of the row's results).
\* The execution is left suspended before the first batch-boundary check.
StartEffects(status, total, results) ==
    LET l == CHOOSE x \in FreeLoops : \A y \in FreeLoops : x <= y IN
    /\ campaign' = [status |-> "SENDING", total |-> total, results |-> results]
    /\ runningCampaigns' = runningCampaigns \cup {CampaignId}
    /\ loops' = [loops EXCEPT ![l] = [NoLoop EXCEPT !.pc = "check",
                                                    !.sent = results.sent,
                                                    !.failed = results.failed,
                                                    !.errors = results.errors]]
    /\ history' = [history EXCEPT !.starts = @ + 1]

\* Caps of the model: executions in flight and starts ever made.
CanStart == FreeLoops # {} /\ history.starts < MaxStarts

\* startCampaign(campaignId), run whole.
StartCampaign ==
    /\ IF StartRejected
       THEN /\ last' = Obs("startCampaign", NoConv, FALSE)
            /\ UNCHANGED <<campaign, runningCampaigns, loops, history>>
       ELSE /\ CanStart
            /\ StartEffects(campaign.status, campaign.total, campaign.results)
            /\ last' = Obs("startCampaign", NoConv, TRUE)
    /\ UNCHANGED <<store, processingQueue, lastFound, procs, bound, sweep, presenceVars, contactVars, botVars, accountConnected>>

\* createCampaign(companyId, data), run whole: the row is created SCHEDULED or
\* DRAFT; a campaign that is not scheduled is started at once, and a start that
\* throws leaves the DRAFT row behind.
CreateCampaign(scheduled, total) ==
    /\ campaign.status = "NONE"
    /\ total \in RecipientCounts
    /\ IF scheduled
       THEN /\ campaign' = [status |-> "SCHEDULED", total |-> total, results |-> NoResults]
            /\ last' = Obs("createCampaign", NoConv, TRUE)
            /\ UNCHANGED <<runningCampaigns, loops, history>>
       ELSE IF ~accountConnected
            THEN /\ campaign' = [status |-> "DRAFT", total |-> total, results |-> NoResults]
                 /\ last' = Obs("createCampaign", NoConv, FALSE)
                 /\ UNCHANGED <<runningCampaigns, loops, history>>
            ELSE /\ CanStart
                 /\ StartEffects("DRAFT", total, NoResults)
                 /\ last' = Obs("createCampaign", NoConv, TRUE)
    /\ UNCHANGED <<store, processingQueue, lastFound, procs, bound, sweep, presenceVars, contactVars, botVars, accountConnected>>

\* checkScheduledCampaigns(), run whole, once the send time has come: every
\* SCHEDULED campaign is started; a start that throws is logged.
CheckScheduledCampaigns ==
    /\ campaign.status = "SCHEDULED"
    /\ IF StartRejected
       THEN UNCHANGED <<campaign, runningCampaigns, loops, history>>
       ELSE /\ CanStart
            /\ StartEffects(campaign.status, campaign.total, campaign.results)
    /\ last' = Obs("checkScheduledCampaigns", NoConv, TRUE)
    /\ UNCHANGED <<store, processingQueue, lastFound, procs, bound, sweep, presenceVars, contactVars, botVars, accountConnected>>

\* cancelCampaign(campaignId), run whole.  stopAt records, for each execution
\* in flight, where the cancel found it: inside a batch (that batch may still
\* finish) or between batches.
CancelCampaign ==
    /\ IF campaign.status # "SENDING"
       THEN /\ last' = Obs("cancelCampaign", NoConv, FALSE)
            /\ UNCHANGED <<campaign, runningCampaigns, loops, history>>
       ELSE /\ runningCampaigns' = runningCampaigns \ {CampaignId}
            /\ campaign' = [campaign EXCEPT !.status = "CANCELLED"]
            /\ loops' = [l \in DOMAIN loops |->
                           IF loops[l].pc = "idle" \/ loops[l].stopAt >= 0 THEN loops[l]
                           ELSE [loops[l] EXCEPT !.stopAt =
                                    IF loops[l].pc = "batch"
                                    THEN BatchEnd(loops[l].i, campaign.total)
                                    ELSE loops[l].j]]
            /\ history' = [history EXCEPT !.cancelled = TRUE]
            /\ last' = Obs("cancelCampaign", NoConv, TRUE)
    /\ UNCHANGED <<store, processingQueue, lastFound, procs, bound, sweep, presenceVars, contactVars, botVars, accountConnected>>

\* for (let i = 0; i < recipients.length; i += batchSize) { if (!has) break; ...
\* The loop test and the batch-boundary check, reached after campaign:started
\* and after each batch's delay.
LoopCheck(l) ==
    /\ loops[l].pc = "check"
    /\ loops' = [loops EXCEPT
                    ![l].pc = IF loops[l].i >= campaign.total
                                 \/ CampaignId \notin runningCampaigns THEN "final"
                              ELSE IF BatchEnd(loops[l].i, campaign.total) <= loops[l].i
                                   THEN "progress"
                                   ELSE "batch",
                    ![l].k = loops[l].i]
    /\ UNCHANGED <<store, processingQueue, lastFound, last, procs, bound, sweep, presenceVars, contactVars, botVars,
                   campaign, runningCampaigns, accountConnected, history>>

\* Where the execution goes after a recipient: the per-recipient catch absorbs
\* a send that threw, so the batch goes on either way.
AfterRecipientEscapes(ok, done) ==
    IF ~ok THEN "catch" ELSE IF done THEN "progress" ELSE "batch"

AfterRecipient(ok, done) == IF done THEN "progress" ELSE "batch"

\* The body of `for (const recipient of batch)` for the next recipient: the
\* contact and the conversation are found or created, the message is sent.
\* sendMessage returns success or throws; the throw is caught per recipient.
LoopRecipient(l, ok) ==
    LET lp == loops[l]
        phone == RecipientPhone(lp.k + 1)
        done == lp.k + 1 = BatchEnd(lp.i, campaign.total) IN
    /\ lp.pc = "batch"
    /\ ok \/ lp.failed < MaxFailures
    /\ contacts' = contacts \cup {phone}
    /\ IF FindActiveConversations(conversations, phone) = {}
       THEN /\ Len(conversations) < bound.convs
            /\ conversations' = CreateConversation(conversations, phone)
       ELSE UNCHANGED conversations
    /\ loops' = [loops EXCEPT ![l] =
                    [lp EXCEPT !.k = @ + 1,
                               !.j = @ + 1,
                               !.batches = IF done THEN Append(@, lp.k + 1 - lp.i) ELSE @,
                               !.sent = IF ok THEN @ + 1 ELSE @,
                               !.failed = IF ok THEN @ ELSE @ + 1,
                               !.errors = IF ok THEN @ ELSE @ + 1,
                               !.pc = AfterRecipient(ok, done)]]
    /\ UNCHANGED <<isOnline, chatbotActive, conversationAgents, processingQueue,
                   lastFound, last, procs, bound, sweep, presenceVars, contactVars, botVars,
                   campaign, runningCampaigns, accountConnected, history>>

\* prisma.campaign.update({data: {results}}) after a batch, campaign:progress
\* and the delay between batches; an update that throws reaches the outer catch.
LoopProgress(l, ok) ==
    LET lp == loops[l] IN
    /\ lp.pc = "progress"
    /\ IF ok
       THEN /\ campaign' = [campaign EXCEPT !.results =
                               [sent |-> lp.sent, failed |-> lp.failed, errors |-> lp.errors]]
            /\ loops' = [loops EXCEPT ![l].i = @ + BatchSize, ![l].pc = "check"]
       ELSE /\ loops' = [loops EXCEPT ![l].pc = "catch"]
            /\ UNCHANGED campaign
    /\ UNCHANGED <<store, processingQueue, lastFound, last, procs, bound, sweep, presenceVars, contactVars, botVars,
                   runningCampaigns, accountConnected, history>>

\* After the batch loop, whether it ran out of recipients or left by `break`:
\* prisma.campaign.update({data: {status: 'SENT', results}}), campaign:completed,
\* and the finally block's runningCampaigns.delete; an update that throws
\* reaches the outer catch.
LoopFinal(l, ok) ==
    LET lp == loops[l] IN
    /\ lp.pc = "final"
    /\ IF ok
       THEN /\ campaign' = [campaign EXCEPT
                               !.status = "SENT",
                               !.results = [sent |-> lp.sent, failed |-> lp.failed,
                                            errors |-> lp.errors]]
            /\ runningCampaigns' = runningCampaigns \ {CampaignId}
            /\ loops' = [loops EXCEPT ![l] = NoLoop]
            /\ last' = [Obs("processCampaign", NoConv, TRUE) EXCEPT
                           !.outcome = IF lp.stopAt >= 0 THEN "stopped" ELSE "completed"]
       ELSE /\ loops' = [loops EXCEPT ![l].pc = "catch"]
            /\ UNCHANGED <<campaign, runningCampaigns, last>>
    /\ UNCHANGED <<store, processingQueue, lastFound, procs, bound, sweep, presenceVars, contactVars, botVars,
                   accountConnected, history>>

\* The outer catch: status FAILED, campaign:failed, then the finally block.
LoopCatch(l) ==
    /\ loops[l].pc = "catch"
    /\ campaign' = [campaign EXCEPT !.status = "FAILED"]
    /\ runningCampaigns' = runningCampaigns \ {CampaignId}
    /\ loops' = [loops EXCEPT ![l] = NoLoop]
    /\ last' = Obs("processCampaign", NoConv, FALSE)
    /\ UNCHANGED <<store, processingQueue, lastFound, procs, bound, sweep, presenceVars, contactVars, botVars,
                   accountConnected, history>>

\* The scheduled sweep over several campaigns.  Campaign rows here carry
\* their send time and company; company 1's account is `accountConnected`,
\* the other company has no connected account.  A started campaign is SENDING;
\* its dispatch is the subject of the actions above.
SweepCompanies == {1, 2}

\* connectedAccounts.length > 0 for the campaign's company
CompanyConnected(company, connected) == company = Company /\ connected

\* createCampaign with scheduledAt: the row is created SCHEDULED
ScheduleCampaign(at, company) ==
    /\ Len(sweep.rows) < MaxCampaigns
    /\ at \in 1..MaxNow
    /\ company \in SweepCompanies
    /\ sweep' = [sweep EXCEPT !.rows = Append(@, [status |-> "SCHEDULED",
                                                  scheduledAt |-> at,
                                                  company |-> company])]
    /\ last' = Obs("createCampaign", NoConv, TRUE)
    /\ UNCHANGED <<store, processingQueue, lastFound, procs, bound, presenceVars,
                   contactVars, botVars, campaign, runningCampaigns, loops,
                   accountConnected, history>>

\* A minute passes.
Tick ==
    /\ sweep.now < MaxNow
    /\ sweep' = [sweep EXCEPT !.now = @ + 1]
    /\ UNCHANGED <<store, processingQueue, lastFound, last, procs, bound, presenceVars,
                   contactVars, botVars, campaign, runningCampaigns, loops,
                   accountConnected, history>>

\* prisma.campaign.findMany({where: {status: 'SCHEDULED', scheduledAt: {lte: now}}})
ScheduledCampaigns(rows, now) ==
    {i \in DOMAIN rows : rows[i].status = "SCHEDULED" /\ rows[i].scheduledAt <= now}

\* The loop of a sweep whose first failed start ends it.
StartFoundUntilFailure(rows, found, connected) ==
    [i \in DOMAIN rows |->
        IF /\ i \in found
           /\ \A j \in found : j <= i => CompanyConnected(rows[j].company, connected)
        THEN [rows[i] EXCEPT !.status = "SENDING"]
        ELSE rows[i]]

\* for (const campaign of scheduledCampaigns) { try { await startCampaign }
\* catch { log } }: startCampaign throws for a company without a connected
\* account and sets SENDING otherwise.
StartFound(rows, found, connected) ==
    [i \in DOMAIN rows |->
        IF i \in found /\ CompanyConnected(rows[i].company, connected)
        THEN [rows[i] EXCEPT !.status = "SENDING"]
        ELSE rows[i]]

\* checkScheduledCampaigns(), run whole, over the campaign rows.
SweepScheduledCampaigns ==
    LET found == ScheduledCampaigns(sweep.rows, sweep.now) IN
    /\ sweep' = [sweep EXCEPT !.rows = StartFound(@, found, accountConnected),
                              !.found = found]
    /\ last' = Obs("checkScheduledCampaigns", NoConv, TRUE)
    /\ UNCHANGED <<store, processingQueue, lastFound, procs, bound, presenceVars,
                   contactVars, botVars, campaign, runningCampaigns, loops,
                   accountConnected, history>>

\* -------------------------------------------- presence tracking (socket.js)
Sockets == 1..MaxSockets

\* The users that open sockets.
SocketUsers == {1, 2, 3}

InitPresence ==
    /\ userSockets = [u \in {} |-> {}]
    /\ socketUsers = [s \in {} |-> NoOne]
    /\ liveConns = {}
    /\ handlers = [s \in Sockets |-> [pc |-> "none", user |-> NoOne]]

\* PresenceManager.addUser(userId, socketId): userSockets afterwards
AddUser(us, u, s) ==
    IF u \in DOMAIN us
    THEN [us EXCEPT ![u] = @ \cup {s}]
    ELSE [x \in DOMAIN us \cup {u} |-> IF x = u THEN {s} ELSE us[x]]

\* PresenceManager.removeUser(socketId) for a socket of user u: userSockets
\* afterwards; the user's entry goes with its last socket.
RemoveUserDropsEntry(us, u, s) ==
    [x \in DOMAIN us \ {u} |-> us[x]]

RemoveUser(us, u, s) ==
    IF u \in DOMAIN us
    THEN IF us[u] \ {s} = {}
         THEN [x \in DOMAIN us \ {u} |-> us[x]]
         ELSE [us EXCEPT ![u] = @ \ {s}]
    ELSE us

\* PresenceManager.isUserOnline(userId)
IsUserOnline(us, u) == u \in DOMAIN us /\ Cardinality(us[u]) > 0

\* PresenceManager.getOnlineUsers()
GetOnlineUsers(us) == DOMAIN us

\* io.on('connection'), run whole: the socket is registered, the persisted
\* flag is set and user:online is announced.
SocketConnect(u, s) ==
    /\ u \in Users /\ s \in Sockets
    /\ userSockets' = AddUser(userSockets, u, s)
    /\ socketUsers' = [x \in DOMAIN socketUsers \cup {s} |->
                          IF x = s THEN u ELSE socketUsers[x]]
    /\ liveConns' = liveConns \cup {<<u, s>>}
    /\ isOnline' = [isOnline EXCEPT ![u] = TRUE]
    /\ last' = [Obs("connect", NoConv, TRUE) EXCEPT !.agent = u, !.event = "user:online"]
    /\ UNCHANGED <<chatbotActive, contacts, conversations, conversationAgents, handlers,
                   processingQueue, lastFound, procs, bound, campaignVars, contactVars, botVars>>

\* if (userId && !presenceManager.isUserOnline(userId)), read right after
\* removeUser: the disconnect handler's decision to announce.
AnnounceOfflineAlways(us, u) == u # NoOne

AnnounceOffline(us, u) == u # NoOne /\ ~IsUserOnline(us, u)

\* socket.on('disconnect'), run whole.  removeUser returns undefined for a
\* socket it does not know, and the handler then does nothing.
SocketDisconnect(s) ==
    LET u == IF s \in DOMAIN socketUsers THEN socketUsers[s] ELSE NoOne
        us == IF u = NoOne THEN userSockets ELSE RemoveUser(userSockets, u, s) IN
    /\ s \in Sockets
    /\ userSockets' = us
    /\ socketUsers' = [x \in DOMAIN socketUsers \ {s} |-> socketUsers[x]]
    /\ liveConns' = {c \in liveConns : c[2] # s}
    /\ IF AnnounceOffline(us, u)
       THEN /\ isOnline' = [isOnline EXCEPT ![u] = FALSE]
            /\ last' = [Obs("disconnect", NoConv, TRUE) EXCEPT
                           !.agent = u, !.event = "user:offline"]
       ELSE /\ UNCHANGED isOnline
            /\ last' = [Obs("disconnect", NoConv, u # NoOne) EXCEPT !.agent = u]
    /\ UNCHANGED <<chatbotActive, contacts, conversations, conversationAgents, handlers,
                   processingQueue, lastFound, procs, bound, campaignVars, contactVars, botVars>>

\* The connection and disconnect handlers step by step.  Both are async
\* functions: what they do to the PresenceManager runs at once, their
\* user.update is awaited and lands whenever the store gets to it, and other
\* handlers run in between.  handlers[s].user is the handler's `user`, and
\* handlers[s].pc is "none" before socket s connects,
\* "update" while the connection handler awaits its user.update, "send" while
\* it awaits sendActiveConversations, "open" once the disconnect listener is
\* registered, "offline" while the disconnect handler awaits its user.update
\* and "closed" when it has returned.
HandlerStates == {"none", "update", "send", "open", "offline", "closed"}

\* io.on('connection') up to its first await: presenceManager.addUser and the
\* call of prisma.user.update({isOnline: true}).
ConnectionBegin(u, s) ==
    /\ u \in Users /\ s \in Sockets /\ handlers[s].pc = "none"
    /\ userSockets' = AddUser(userSockets, u, s)
    /\ socketUsers' = [x \in DOMAIN socketUsers \cup {s} |->
                          IF x = s THEN u ELSE socketUsers[x]]
    /\ liveConns' = liveConns \cup {<<u, s>>}
    /\ handlers' = [handlers EXCEPT ![s] = [pc |-> "update", user |-> u]]
    /\ last' = [Obs("connect", NoConv, TRUE) EXCEPT !.agent = u]
    /\ UNCHANGED <<store, processingQueue, lastFound, procs, bound,
                   campaignVars, contactVars, botVars>>

\* The connection handler's user.update lands and user:online is announced.
ConnectionUpdated(s) ==
    /\ s \in Sockets /\ handlers[s].pc = "update"
    /\ isOnline' = [isOnline EXCEPT ![handlers[s].user] = TRUE]
    /\ handlers' = [handlers EXCEPT ![s].pc = "send"]
    /\ last' = [Obs("connect", NoConv, TRUE) EXCEPT
                   !.agent = handlers[s].user, !.event = "user:online"]
    /\ UNCHANGED <<chatbotActive, contacts, conversations, conversationAgents,
                   userSockets, socketUsers, liveConns,
                   processingQueue, lastFound, procs, bound,
                   campaignVars, contactVars, botVars>>

\* sendActiveConversations returns, the event handlers are set up and the
\* disconnect listener is registered.
ConnectionReady(s) ==
    /\ s \in Sockets /\ handlers[s].pc = "send"
    /\ handlers' = [handlers EXCEPT ![s].pc = "open"]
    /\ UNCHANGED <<store, userSockets, socketUsers, liveConns, last,
                   processingQueue, lastFound, procs, bound,
                   campaignVars, contactVars, botVars>>

\* The socket closes while its connection handler is still at an await: the
\* disconnect event has no listener yet and nothing runs for it.
ClosedBeforeListener(s) ==
    /\ s \in Sockets /\ handlers[s].pc \in {"update", "send"}
    /\ <<handlers[s].user, s>> \in liveConns
    /\ liveConns' = liveConns \ {<<handlers[s].user, s>>}
    /\ UNCHANGED <<store, userSockets, socketUsers, handlers, last,
                   processingQueue, lastFound, procs, bound,
                   campaignVars, contactVars, botVars>>

\* socket.on('disconnect') up to its await: removeUser, the isUserOnline test
\* and, for the user's last socket, the call of user.update({isOnline: false}).
DisconnectBegin(s) ==
    LET u == handlers[s].user
        us == RemoveUser(userSockets, u, s) IN
    /\ s \in Sockets /\ handlers[s].pc = "open"
    /\ <<u, s>> \in liveConns
    /\ userSockets' = us
    /\ socketUsers' = [x \in DOMAIN socketUsers \ {s} |-> socketUsers[x]]
    /\ liveConns' = liveConns \ {<<u, s>>}
    /\ handlers' = [handlers EXCEPT ![s].pc = IF AnnounceOffline(us, u)
                                              THEN "offline" ELSE "closed"]
    /\ last' = [Obs("disconnect", NoConv, TRUE) EXCEPT !.agent = u]
    /\ UNCHANGED <<store, processingQueue, lastFound, procs, bound,
                   campaignVars, contactVars, botVars>>

\* The disconnect handler's user.update lands and user:offline is announced.
DisconnectUpdated(s) ==
    /\ s \in Sockets /\ handlers[s].pc = "offline"
    /\ isOnline' = [isOnline EXCEPT ![handlers[s].user] = FALSE]
    /\ handlers' = [handlers EXCEPT ![s].pc = "closed"]
    /\ last' = [Obs("disconnect", NoConv, TRUE) EXCEPT
                   !.agent = handlers[s].user, !.event = "user:offline"]
    /\ UNCHANGED <<chatbotActive, contacts, conversations, conversationAgents,
                   userSockets, socketUsers, liveConns,
                   processingQueue, lastFound, procs, bound,
                   campaignVars, contactVars, botVars>>

\* ------------------------------- contact resolution (omnichannelService.js)
\* A column or an identifier-map entry that is null.
Null == 0

Channels == {"WHATSAPP", "EMAIL", "INSTAGRAM"}

\* Sender identifiers.  On a phone channel 1 and 2 are two spellings of the
\* same number (their digits are equal), 3 is another number.
ExternalIds == 1..3

\* externalId.replace(/[^\d]/g, '')
Digits(e) == (e + 1) \div 2

\* extractPhoneFromExternalId(externalId, channel)
ExtractPhoneFromExternalId(e, ch) == IF ch \in {"WHATSAPP", "SMS"} THEN Digits(e) ELSE Null

\* extractEmailFromExternalId(externalId, channel)
ExtractEmailFromExternalId(e, ch) == IF ch = "EMAIL" THEN e ELSE Null

NoExternalIds == [ch \in Channels |-> Null]

NoResolve == [channel |-> "none", externalId |-> Null, id |-> 0, prev |-> 0, grew |-> FALSE]

InitContacts ==
    /\ contactTable = <<>>
    /\ lastResolve = NoResolve

\* whatsapp.js handleIncomingMessage: the contact of an inbound WhatsApp
\* message is found by its phone or created with a phone and nothing else.
CreatePhoneContact(phone) ==
    /\ phone \in Phones
    /\ IF \E i \in DOMAIN contactTable : contactTable[i].phone = phone
       THEN UNCHANGED contactTable
       ELSE /\ Len(contactTable) < MaxContacts
            /\ contactTable' = Append(contactTable,
                    [phone |-> phone, email |-> Null, externalIds |-> NoExternalIds])
    /\ lastResolve' = NoResolve
    /\ UNCHANGED <<store, processingQueue, lastFound, last, procs, bound,
                   campaignVars, presenceVars, botVars>>

\* The rows prisma.contact.findFirst may return for the OR of the three
\* conditions.  A condition whose value is null (no phone or no email can be
\* extracted for the channel) selects the rows whose column is null.  The query
\* has no orderBy, so any matching row can be the first.
FindFirstContacts(table, e, ch) ==
    {i \in DOMAIN table :
        \/ table[i].externalIds[ch] = e
        \/ table[i].phone = ExtractPhoneFromExternalId(e, ch)
        \/ table[i].email = ExtractEmailFromExternalId(e, ch)}

\* normalizeContact(externalId, channel, metadata), run whole.  lastResolve
\* keeps the call and the id it returned; prev is the id the call before it
\* returned when that call had the same arguments.
NormalizeContact(e, ch) ==
    LET found == FindFirstContacts(contactTable, e, ch)
        prev == IF lastResolve.channel = ch /\ lastResolve.externalId = e
                THEN lastResolve.id ELSE 0 IN
    /\ e \in ExternalIds /\ ch \in Channels
    /\ IF found = {}
       THEN /\ Len(contactTable) < MaxContacts
            /\ contactTable' = Append(contactTable,
                    [phone |-> ExtractPhoneFromExternalId(e, ch),
                     email |-> ExtractEmailFromExternalId(e, ch),
                     externalIds |-> [NoExternalIds EXCEPT ![ch] = e]])
            /\ lastResolve' = [channel |-> ch, externalId |-> e,
                               id |-> Len(contactTable) + 1, prev |-> prev, grew |-> TRUE]
       ELSE \E c \in found :
            /\ contactTable' = [contactTable EXCEPT ![c].externalIds[ch] = e]
            /\ lastResolve' = [channel |-> ch, externalId |-> e,
                               id |-> c, prev |-> prev, grew |-> FALSE]
    /\ UNCHANGED <<store, processingQueue, lastFound, last, procs, bound,
                   campaignVars, presenceVars, botVars>>

\* ---------------------------- unified conversation (omnichannelService.js)
\* prisma.conversation.create of findOrCreateUnifiedConversation
CreateUnifiedConversation(cv, contact, channel) ==
    Append(cv, [contactId |-> contact, companyId |-> Company, status |-> "OPEN",
                departmentId |-> NoDepartment, channels |-> <<channel>>])

\* channels.includes(channel)
ChannelsInclude(channels, channel) ==
    \E i \in DOMAIN channels : channels[i] = channel

\* OmnichannelService.findOrCreateUnifiedConversation(contactId, channel,
\* companyId) for an inbound message of an existing contact on `channel`:
\* `found` is the row findFirst returns, or the id of the row created.
FindOrCreateUnifiedConversation(contact, channel, found) ==
    /\ contact \in contacts
    /\ channel \in Channels
    /\ LET active == FindActiveConversations(conversations, contact) IN
       IF active # {}
       THEN /\ found \in active
            /\ conversations' =
                  IF ChannelsInclude(conversations[found].channels, channel)
                  THEN conversations
                  ELSE [conversations EXCEPT
                           ![found].channels = Append(@, channel)]
            /\ last' = [Obs("unified", found, TRUE) EXCEPT !.outcome = "found"]
       ELSE /\ found = Len(conversations) + 1
            /\ found <= bound.convs
            /\ conversations' = CreateUnifiedConversation(conversations, contact, channel)
            /\ last' = [Obs("unified", found, TRUE) EXCEPT !.outcome = "created"]
    /\ lastFound' = [lastFound EXCEPT ![contact] = found]
    /\ UNCHANGED <<isOnline, chatbotActive, contacts, conversationAgents,
                   processingQueue, procs, bound, aux>>

\* ------------------------------------ chatbot pipeline (messageProcessor.js)
\* Texts are sequences of characters.
Upper ==
    <<"A", "B", "C", "D", "E", "F", "G", "H", "I", "J", "K", "L", "M", "N",
      "O", "P", "Q", "R", "S", "T", "U", "V", "W", "X", "Y", "Z", "Ç", "Ã">>

Lower ==
    <<"a", "b", "c", "d", "e", "f", "g", "h", "i", "j", "k", "l", "m", "n",
      "o", "p", "q", "r", "s", "t", "u", "v", "w", "x", "y", "z", "ç", "ã">>

\* One character of String.prototype.toLowerCase()
LowerChar(ch) ==
    IF \E i \in DOMAIN Upper : Upper[i] = ch
    THEN Lower[CHOOSE i \in DOMAIN Upper : Upper[i] = ch]
    ELSE ch

\* text.toLowerCase()
ToLowerCase(text) == [i \in DOMAIN text |-> LowerChar(text[i])]

\* text.includes(part)
Includes(text, part) ==
    \E i \in 1..(Len(text) - Len(part) + 1) :
        \A k \in 1..Len(part) : text[i + k - 1] = part[k]

\* const transferKeywords = [...]
TransferKeywords ==
    {<<"t", "r", "a", "n", "s", "f", "e", "r", "i", "r">>,
     <<"a", "t", "e", "n", "d", "e", "n", "t", "e">>,
     <<"h", "u", "m", "a", "n", "o">>,
     <<"s", "u", "p", "e", "r", "v", "i", "s", "o", "r">>,
     <<"g", "e", "r", "e", "n", "t", "e">>,
     <<"r", "e", "c", "l", "a", "m", "a", "ç", "ã", "o">>,
     <<"u", "r", "g", "e", "n", "t", "e">>,
     <<"p", "r", "o", "b", "l", "e", "m", "a", " ", "g", "r", "a", "v", "e">>}

\* Messages a customer writes.
WantsHuman ==
    <<"q", "u", "e", "r", "o", " ", "f", "a", "l", "a", "r", " ", "c", "o",
      "m", " ", "u", "m", " ", "a", "t", "e", "n", "d", "e", "n", "t", "e",
      " ", "h", "u", "m", "a", "n", "o">>

Urgent ==
    <<"U", "R", "G", "E", "N", "T", "E", "!">>

Greeting ==
    <<"O", "l", "a", ",", " ", "b", "o", "m", " ", "d", "i", "a">>

\* Replies the completion call yields.
ReplyPlain ==
    <<"C", "l", "a", "r", "o", ",", " ", "p", "o", "s", "s", "o", " ", "a",
      "j", "u", "d", "a", "r", ".">>

ReplyManager ==
    <<"V", "o", "u", " ", "c", "h", "a", "m", "a", "r", " ", "o", " ", "G",
      "e", "r", "e", "n", "t", "e">>

ReplySchedule ==
    <<"[", "A", "G", "E", "N", "D", "A", "R", "]", " ", "C", "o", "m", "b",
      "i", "n", "a", "d", "o">>

\* The reply generateAIResponse returns when the completion call failed.
FallbackReply ==
    <<"D", "e", "s", "c", "u", "l", "p", "e", ",", " ", "e", "s", "t", "o",
      "u", " ", "c", "o", "m", " ", "d", "i", "f", "i", "c", "u", "l", "d",
      "a", "d", "e", "s", " ", "t", "é", "c", "n", "i", "c", "a", "s", ".",
      " ", "V", "o", "u", " ", "t", "r", "a", "n", "s", "f", "e", "r", "i",
      "r", " ", "v", "o", "c", "ê", " ", "p", "a", "r", "a", " ", "u", "m",
      " ", "d", "e", " ", "n", "o", "s", "s", "o", "s", " ", "a", "t", "e",
      "n", "d", "e", "n", "t", "e", "s", ".">>

\* The tags extractActions looks for.
ScheduleTag ==
    <<"[", "A", "G", "E", "N", "D", "A", "R", "]">>

QuoteTag ==
    <<"[", "C", "O", "T", "A", "C", "A", "O", "]">>

UserTexts == {WantsHuman, Urgent, Greeting}

\* openai.chat.completions.create: it throws, or yields a reply.
Completions ==
    {[ok |-> FALSE, content |-> <<>>]}
        \cup {[ok |-> TRUE, content |-> r] : r \in {ReplyPlain, ReplyManager, ReplySchedule}}

\* MessageProcessor.shouldTransferToAgent, comparing the texts as they are.
ShouldTransferToAgentCaseSensitive(response, userMessage) ==
    \E keyword \in TransferKeywords :
        Includes(response, keyword) \/ Includes(userMessage, keyword)

\* MessageProcessor.shouldTransferToAgent(response, userMessage)
ShouldTransferToAgent(response, userMessage) ==
    LET responseText == ToLowerCase(response)
        userText == ToLowerCase(userMessage) IN
    \E keyword \in TransferKeywords :
        Includes(responseText, keyword) \/ Includes(userText, keyword)

\* MessageProcessor.extractActions(response): the action types (empty: null)
ExtractActions(response) ==
    {t \in {"schedule", "quote"} :
        \/ t = "schedule" /\ Includes(response, ScheduleTag)
        \/ t = "quote" /\ Includes(response, QuoteTag)}

\* generateAIResponse whose catch returns the fallback without the flag.
GenerateAIResponseQuietFallback(userMessage, completion) ==
    IF completion.ok
    THEN [message |-> completion.content,
          shouldTransferToAgent |-> ShouldTransferToAgent(completion.content, userMessage),
          actions |-> ExtractActions(completion.content)]
    ELSE [message |-> FallbackReply, shouldTransferToAgent |-> FALSE, actions |-> {}]

\* MessageProcessor.generateAIResponse(userMessage, context)
GenerateAIResponse(userMessage, completion) ==
    IF completion.ok
    THEN [message |-> completion.content,
          shouldTransferToAgent |-> ShouldTransferToAgent(completion.content, userMessage),
          actions |-> ExtractActions(completion.content)]
    ELSE [message |-> FallbackReply, shouldTransferToAgent |-> TRUE, actions |-> {}]

\* What generateAIResponse returns for each sample message and completion.
AiResponses ==
    [text \in UserTexts, completion \in Completions |->
        GenerateAIResponse(text, completion)]

\* A slot of ordering.runs with no message:send handler in flight.
NoSend == [pc |-> "idle", n |-> 0, conv |-> NoConv, user |-> NoOne, ok |-> FALSE, id |-> 0]

NoPipeline ==
    [conv |-> NoConv, userText |-> <<>>, aiCalled |-> FALSE, aiFailed |-> FALSE,
     message |-> <<>>, shouldTransferToAgent |-> FALSE, calls |-> <<>>]

InitBot ==
    /\ messages = <<>>
    /\ delivered = <<>>
    /\ pipeline = NoPipeline
    /\ ordering = [runs |-> [i \in 1..MaxRuns |-> NoSend], accepted |-> 0,
                   persisted |-> <<>>, emitted |-> <<>>]

\* prisma.message.create of sendBotMessage: no userId, metadata.source chatbot
BotMessage(c, content) ==
    [conversationId |-> c, direction |-> "OUTBOUND", status |-> "SENT",
     userId |-> NoOne, source |-> "chatbot", content |-> content,
     whatsappId |-> Null]

\* processChatbotResponse handing every generated reply to sendBotMessage.
RepliesToSendAlsoOnTransfer(ai, escalate) == <<ai.message>>

\* The replies processChatbotResponse hands to sendBotMessage: none when the
\* run goes to assignToAgent (it returns before the sendBotMessage call).
RepliesToSend(ai, escalate) == IF escalate THEN <<>> ELSE <<ai.message>>

BotFailPoints == {"none", "agents", "create", "status", "persist", "send"}

\* processIncomingMessage on conversation c when shouldUseChatbot answers
\* true, run whole: processChatbotResponse with everything it calls.
\* `text` is message.content, `completion` what the completion call yields,
\* `withContact` whether the conversation object carries its contact
\* (buildAIContext and sendBotMessage read conversation.contact), `fail` the
\* store or transport call that throws.  pipeline.calls lists the calls of the
\* run in order.
ProcessChatbotResponse(c, text, completion, withContact, fail) ==
    /\ c \in ConvIds
    /\ conversations[c].status \in ActiveStatuses
    /\ c \notin processingQueue
    /\ ShouldUseChatbot(Cardinality(OnlineAgents(conversations[c].companyId)),
                        chatbotActive, TRUE,
                        ~IsConversationAssigned(conversationAgents, c))
    /\ LET ai == AiResponses[text, completion]
           escalate == ~withContact \/ ai.shouldTransferToAgent
           head == <<"shouldUseChatbot", "processChatbotResponse">>
                       \o (IF withContact THEN <<"generateAIResponse">> ELSE <<>>)
           replies == RepliesToSend(ai, escalate)
           run == [conv |-> c, userText |-> text,
                   aiCalled |-> withContact,
                   aiFailed |-> withContact /\ ~completion.ok,
                   message |-> IF withContact THEN ai.message ELSE <<>>,
                   shouldTransferToAgent |-> withContact /\ ai.shouldTransferToAgent,
                   calls |-> head]
       IN
       IF escalate
       THEN \E agents \in ResultOrders(AvailableAgents(conversations[c].companyId)) :
               LET r == AssignToAgent(conversations, conversationAgents, c, agents, fail)
               IN  /\ fail \in {"none", "agents", "create", "status"}
                   /\ fail = "create" => Len(agents) > 0
                   /\ Len(r.ca) <= bound.rows
                   /\ conversations' = r.cv
                   /\ conversationAgents' = r.ca
                   /\ pipeline' = [run EXCEPT !.calls = @ \o <<"assignToAgent">>]
                   /\ last' = [Obs("route", c, TRUE) EXCEPT
                                  !.bh = TRUE, !.fail = fail, !.useBot = TRUE,
                                  !.outcome = r.outcome, !.agent = r.agent,
                                  !.event = r.event]
                   /\ messages' = messages \o [i \in 1..Len(replies) |->
                                                   BotMessage(c, replies[i])]
                   /\ delivered' = delivered \o replies
       ELSE /\ fail \in {"none", "persist", "send"}
            /\ IF fail = "persist"
               THEN /\ UNCHANGED <<messages, delivered>>
                    /\ pipeline' = [run EXCEPT !.calls = @ \o <<"sendBotMessage">>]
               ELSE /\ Len(messages) < MaxMessages
                    /\ messages' = Append(messages, BotMessage(c, replies[1]))
                    /\ IF fail = "send"
                       THEN /\ UNCHANGED delivered
                            /\ pipeline' = [run EXCEPT !.calls =
                                               @ \o <<"sendBotMessage", "message.create">>]
                       ELSE /\ delivered' = Append(delivered, replies[1])
                            /\ pipeline' = [run EXCEPT !.calls =
                                               @ \o <<"sendBotMessage", "message.create",
                                                      "sendMessage", "message:new">>]
            /\ last' = [Obs("route", c, TRUE) EXCEPT
                           !.bh = TRUE, !.fail = fail, !.useBot = TRUE, !.outcome = "bot"]
            /\ UNCHANGED <<conversations, conversationAgents>>
    /\ UNCHANGED <<isOnline, chatbotActive, contacts, processingQueue, lastFound,
                   procs, bound, ordering, campaignVars, presenceVars, contactVars>>

\* ------------------------------------------- agents' messages and statuses
\* prisma.message.create of the send handlers: OUTBOUND, SENT, with the sender
AgentMessage(c, u) ==
    [conversationId |-> c, direction |-> "OUTBOUND", status |-> "SENT",
     userId |-> u, source |-> "agent", content |-> <<>>, whatsappId |-> Null]

SendEntryPoints == {"socket", "chat", "chat2"}

\* The caller has an active assignment on the conversation.
IsAssignedTo(ca, c, u) ==
    \E i \in ActiveAssignments(ca, c) : ca[i].userId = u

\* The permission check of the send handlers: only the second HTTP version
\* has one, and only for callers of role AGENT.
SendRefused(via, u, c) ==
    /\ via = "chat2"
    /\ UserRole(u) = "AGENT"
    /\ ~IsAssignedTo(conversationAgents, c, u)

\* What a send handler leaves in the Message row once whatsappService.
\* sendMessage returned (ok) or threw: the socket handler and the first HTTP
\* version store DELIVERED with the transport's message id, and their throw
\* goes to the handler's catch with the row still SENT; the second HTTP
\* version stores DELIVERED without the id, or FAILED.
AfterTransport(row, id, via, ok) ==
    IF ok
    THEN [row EXCEPT !.status = "DELIVERED",
                     !.whatsappId = IF via = "chat2" THEN Null ELSE id]
    ELSE IF via = "chat2" THEN [row EXCEPT !.status = "FAILED"] ELSE row

\* socket.on('message:send') and both POST /conversations/:id/messages, run
\* whole.  `ok`: whatsappService.sendMessage returns (it throws otherwise).
SendMessage(u, c, via, ok) ==
    /\ u \in Staff
    /\ via \in SendEntryPoints
    /\ via = "socket" => isOnline[u]
    /\ c \in 1..bound.convs
    /\ IF c \notin ConvIds
       THEN /\ last' = [Rejected EXCEPT !.outcome = "404"]
            /\ UNCHANGED <<conversations, messages, delivered>>
       ELSE IF SendRefused(via, u, c)
       THEN /\ last' = [Rejected EXCEPT !.conv = c, !.agent = u, !.outcome = "403"]
            /\ UNCHANGED <<conversations, messages, delivered>>
       ELSE /\ Len(messages) < MaxSent
            /\ messages' = Append(messages,
                                   AfterTransport(AgentMessage(c, u),
                                                  Len(messages) + 1, via, ok))
            /\ delivered' = IF ok THEN Append(delivered, <<>>) ELSE delivered
            /\ conversations' =
                  IF via = "chat2" /\ conversations[c].status = "PENDING"
                  THEN UpdateStatus(conversations, c, "OPEN")
                  ELSE conversations
            /\ last' = [Obs("send", c, ok \/ via = "chat2") EXCEPT
                           !.agent = u,
                           !.outcome = IF via = "socket" THEN "none"
                                       ELSE IF ok \/ via = "chat2" THEN "201"
                                       ELSE "500",
                           !.event = IF ok /\ via # "chat2"
                                     THEN "message:new" ELSE "none"]
    /\ UNCHANGED <<isOnline, chatbotActive, contacts, conversationAgents,
                   processingQueue, lastFound, procs, bound, pipeline, ordering,
                   campaignVars, presenceVars, contactVars>>

\* The status values of the WhatsApp status webhook.
WebhookStatuses == {"sent", "delivered", "read", "failed"}

\* status.status.toUpperCase() on the webhook's values
StatusToUpperCase(status) ==
    CASE status = "sent" -> "SENT"
      [] status = "delivered" -> "DELIVERED"
      [] status = "read" -> "READ"
      [] status = "failed" -> "FAILED"

\* processMessageStatus(status): every Message whose metadata.whatsappId is
\* status.id gets the webhook's status, upper-cased.
ProcessMessageStatus(id, status) ==
    /\ id \in 1..MaxSent
    /\ status \in WebhookStatuses
    /\ messages' = [i \in DOMAIN messages |->
                       IF messages[i].whatsappId = id
                       THEN [messages[i] EXCEPT !.status = StatusToUpperCase(status)]
                       ELSE messages[i]]
    /\ last' = Obs("status", NoConv, TRUE)
    /\ UNCHANGED <<isOnline, chatbotActive, contacts, conversations,
                   conversationAgents, processingQueue, lastFound, procs, bound,
                   delivered, pipeline, ordering, campaignVars, presenceVars,
                   contactVars>>

\* socket.on('message:send') interleaved at its awaits.  A handler is accepted
\* when its event arrives: it runs to its first await (conversation.findUnique)
\* and gets the next acceptance number n.
SendAccept(i, u, c, ok) ==
    /\ ordering.runs[i] = NoSend
    /\ ordering.accepted < MaxSent
    /\ u \in Staff /\ isOnline[u]
    /\ c \in ConvIds
    /\ ordering' = [ordering EXCEPT
                       !.accepted = @ + 1,
                       !.runs[i] = [pc |-> "create", n |-> ordering.accepted + 1,
                                    conv |-> c, user |-> u, ok |-> ok, id |-> 0]]
    /\ last' = Obs("send:accept", c, TRUE)
    /\ UNCHANGED <<store, processingQueue, lastFound, procs, bound, messages,
                   delivered, pipeline, campaignVars, presenceVars, contactVars>>

\* findUnique has resolved: prisma.message.create
SendCreate(i) ==
    LET run == ordering.runs[i] IN
    /\ run.pc = "create"
    /\ messages' = Append(messages, AgentMessage(run.conv, run.user))
    /\ ordering' = [ordering EXCEPT
                       !.persisted = Append(@, run.n),
                       !.runs[i] = [run EXCEPT !.pc = "transport",
                                               !.id = Len(messages) + 1]]
    /\ last' = Obs("send:create", run.conv, TRUE)
    /\ UNCHANGED <<store, processingQueue, lastFound, procs, bound, delivered,
                   pipeline, campaignVars, presenceVars, contactVars>>

\* whatsappService.sendMessage returns, or throws: the handler's catch emits
\* 'error' to the sender and the handler ends.
SendTransport(i) ==
    LET run == ordering.runs[i] IN
    /\ run.pc = "transport"
    /\ delivered' = IF run.ok THEN Append(delivered, <<>>) ELSE delivered
    /\ ordering' = [ordering EXCEPT
                       !.runs[i] = IF run.ok THEN [run EXCEPT !.pc = "update"]
                                   ELSE NoSend]
    /\ last' = Obs("send:transport", run.conv, run.ok)
    /\ UNCHANGED <<store, processingQueue, lastFound, procs, bound, messages,
                   pipeline, campaignVars, presenceVars, contactVars>>

\* prisma.message.update to DELIVERED has resolved; the handler emits
\* message:new to the conversation room and goes on to conversation.update.
SendUpdate(i) ==
    LET run == ordering.runs[i] IN
    /\ run.pc = "update"
    /\ messages' = [messages EXCEPT
                       ![run.id] = AfterTransport(@, run.id, "socket", TRUE)]
    /\ ordering' = [ordering EXCEPT
                       !.emitted = Append(@, run.n),
                       !.runs[i] = NoSend]
    /\ last' = [Obs("send", run.conv, TRUE) EXCEPT
                   !.agent = run.user, !.event = "message:new"]
    /\ UNCHANGED <<store, processingQueue, lastFound, procs, bound, delivered,
                   pipeline, campaignVars, presenceVars, contactVars>>

\* -------------------------------------------------------------- Init
InitWith(convs, rows) ==
    /\ bound = [convs |-> convs, rows |-> rows]
    /\ isOnline = [u \in Users |-> u \notin Staff]
    /\ chatbotActive = FALSE
    /\ contacts = {}
    /\ conversations = <<>>
    /\ conversationAgents = <<>>
    /\ processingQueue = {}
    /\ lastFound = [p \in Phones |-> NoConv]
    /\ last = Obs("init", NoConv, TRUE)
    /\ procs = [i \in 1..MaxRuns |-> Idle]
    /\ InitCampaign
    /\ InitPresence
    /\ InitContacts
    /\ InitBot

Init == InitWith(MaxConvs, MaxRows)

\* ------------------------------------------------------ specifications
\* Spec: routing without store failures, one handler at a time.  Users
\* connect and disconnect, the chatbot is switched on and off, an inbound
\* message creates the contact's conversation, users take it, and
\* processIncomingMessage routes it at any clock reading.
Next ==
    \/ \E u \in Staff : Connect(u)
    \/ \E u \in Staff : Disconnect(u)
    \/ \E b \in BOOLEAN : SetChatbot(b)
    \/ \E f \in 1..bound.convs : HandleIncomingMessage(1, f)
    \/ \E u \in Staff, c \in 1..bound.convs : TakeConversation(u, c)
    \/ \E c \in 1..bound.convs, clock \in Clocks : ProcessIncomingMessage(c, clock, "none")

Spec == Init /\ [][Next]_vars

\* SpecFail: routing with a store call that throws, one handler at a time.
NextFail ==
    \/ \E u \in {1, 2} : Connect(u)
    \/ \E u \in {1, 2} : Disconnect(u)
    \/ \E b \in BOOLEAN : SetChatbot(b)
    \/ \E f \in 1..bound.convs : HandleIncomingMessage(1, f)
    \/ \E u \in Staff, c \in 1..bound.convs : CloseConversation(u, c, "chat")
    \/ \E c \in 1..bound.convs, clock \in Clocks, fail \in FailPoints :
           ProcessIncomingMessage(c, clock, fail)

SpecFail == Init /\ [][NextFail]_vars

\* SpecAssign: every way of assigning a conversation, one handler at a time
\* (HTTP assign in both versions, conversation:take, the automation action,
\* the router on a weekday morning with no store failure), with close and reopen.
NextAssign ==
    \/ \E u \in {1, 2} : Connect(u)
    \/ \E u \in {1, 2} : Disconnect(u)
    \/ \E f \in 1..bound.convs : HandleIncomingMessage(1, f)
    \/ \E u \in Staff, c \in 1..bound.convs : TakeConversation(u, c)
    \/ \E u \in Staff, a \in Users \cup {NoOne}, c \in 1..bound.convs : AssignChat(u, a, c)
    \/ \E u \in Staff, a \in Staff \cup {4}, c \in 1..bound.convs : AssignChat2(u, a, c)
    \/ \E a \in Staff \cup {NoOne}, c \in 1..bound.convs : ExecuteAssignAgentAction(a, c)
    \/ \E u \in Staff, c \in 1..bound.convs, via \in {"socket", "chat", "chat2"} :
           CloseConversation(u, c, via)
    \/ \E u \in Staff, c \in 1..bound.convs : ReopenConversation(u, c)
    \/ \E c \in 1..bound.convs : ProcessIncomingMessage(c, <<"segunda-feira", 9>>, "none")

SpecAssign == Init /\ [][NextAssign]_vars

\* SpecClose: conversations of one contact are taken by agents and closed
\* through the socket event and both HTTP routes.
NextClose ==
    \/ \E u \in {1, 2} : Connect(u)
    \/ \E f \in 1..bound.convs : HandleIncomingMessage(1, f)
    \/ \E u \in {1, 2}, c \in 1..bound.convs : TakeConversation(u, c)
    \/ \E u \in Staff, c \in 1..bound.convs, via \in {"socket", "chat", "chat2"} :
           CloseConversation(u, c, via)

SpecClose == Init /\ [][NextClose]_vars

\* SpecTransfer: the conversation of one contact is taken by agents and
\* transferred to departments.
NextTransfer ==
    \/ \E u \in {1, 2} : Connect(u)
    \/ \E f \in 1..bound.convs : HandleIncomingMessage(1, f)
    \/ \E u \in {1, 2}, c \in 1..bound.convs : TakeConversation(u, c)
    \/ \E u \in {1, 3}, c \in 1..bound.convs, d \in DepartmentIds :
           TransferConversation(u, c, d)

SpecTransfer == Init /\ [][NextTransfer]_vars

\* SpecUnified: inbound messages of one contact arrive through WhatsApp and
\* through the omnichannel entry point on several channels; its conversations
\* are closed by a manager.
NextUnified ==
    \/ \E f \in 1..bound.convs : HandleIncomingMessage(1, f)
    \/ \E ch \in Channels, f \in 1..bound.convs : FindOrCreateUnifiedConversation(1, ch, f)
    \/ \E c \in 1..bound.convs : CloseConversation(3, c, "chat")

SpecUnified == Init /\ [][NextUnified]_vars

\* SpecMessages: agents connect, take the conversation of one contact and
\* send messages through the three entry points, the transport delivering or
\* failing; the status webhook reports on delivered messages.
NextMessages ==
    \/ \E u \in {1, 2} : Connect(u)
    \/ \E f \in 1..bound.convs : HandleIncomingMessage(1, f)
    \/ \E u \in {1, 2}, c \in 1..bound.convs : TakeConversation(u, c)
    \/ \E u \in Staff, c \in 1..bound.convs, via \in SendEntryPoints, ok \in BOOLEAN :
           SendMessage(u, c, via, ok)
    \/ \E id \in 1..MaxSent, status \in WebhookStatuses : ProcessMessageStatus(id, status)

SpecMessages == Init /\ [][NextMessages]_vars

\* SpecOrder: agents send messages on the conversation of one contact through
\* message:send, up to MaxRuns handlers in flight and interleaved at their
\* awaits.
NextOrder ==
    \/ \E u \in {1, 2} : Connect(u)
    \/ \E f \in 1..bound.convs : HandleIncomingMessage(1, f)
    \/ \E i \in 1..MaxRuns, u \in {1, 2}, c \in 1..bound.convs, ok \in BOOLEAN :
           SendAccept(i, u, c, ok)
    \/ \E i \in 1..MaxRuns : SendCreate(i)
    \/ \E i \in 1..MaxRuns : SendTransport(i)
    \/ \E i \in 1..MaxRuns : SendUpdate(i)

SpecOrder == Init /\ [][NextOrder]_vars

\* SpecSweep: campaigns of two companies are created with a send time, time
\* passes, company 1's account connects and disconnects, and the sweep runs;
\* setInterval runs it every minute, so it is not postponed forever.
NextSweep ==
    \/ AccountReady
    \/ AccountDisconnected
    \/ \E at \in 1..MaxNow, company \in SweepCompanies : ScheduleCampaign(at, company)
    \/ Tick
    \/ SweepScheduledCampaigns

SpecSweep == Init /\ [][NextSweep]_vars /\ WF_vars(SweepScheduledCampaigns)

\* SpecLifecycle: the conversations of two contacts under inbound messages,
\* close and reopen, one handler at a time.
NextLifecycle ==
    \/ \E p \in Phones, f \in 1..bound.convs : HandleIncomingMessage(p, f)
    \/ \E u \in Staff, c \in 1..bound.convs : CloseConversation(u, c, "chat")
    \/ \E u \in Staff, c \in 1..bound.convs : ReopenConversation(u, c)

SpecLifecycle == Init /\ [][NextLifecycle]_vars

\* SpecLoad: agents accumulate assignments (conversation:take, the second
\* version of HTTP assign) on conversations that are closed and created,
\* and the router selects among them on a weekday morning.
NextLoad ==
    \/ \E u \in {1, 2} : Connect(u)
    \/ \E u \in {1, 2} : Disconnect(u)
    \/ \E f \in 1..bound.convs : HandleIncomingMessage(1, f)
    \/ \E u \in {1, 2}, c \in 1..bound.convs : TakeConversation(u, c)
    \/ \E a \in {1, 2}, c \in 1..bound.convs : AssignChat2(3, a, c)
    \/ \E c \in 1..bound.convs : CloseConversation(3, c, "chat2")
    \/ \E c \in 1..bound.convs : ProcessIncomingMessage(c, <<"segunda-feira", 9>>, "none")

SpecLoad == InitWith(MaxConvs, LoadRows) /\ [][NextLoad]_vars

\* SpecTake: conversation:take and the first version of HTTP assign, up to
\* MaxRuns of them in flight and interleaved at their store calls.
NextTake ==
    \/ \E u \in {1, 2} : Connect(u)
    \/ \E f \in 1..bound.convs : HandleIncomingMessage(1, f)
    \/ \E i \in 1..MaxRuns, u \in Staff, c \in 1..bound.convs : TakeFind(i, u, c)
    \/ \E i \in 1..MaxRuns : TakeCreate(i)
    \/ \E i \in 1..MaxRuns : TakeUpdate(i)
    \/ \E i \in 1..MaxRuns, u \in Staff, a \in {1, 2, NoOne}, c \in 1..bound.convs :
           AssignFind(i, u, a, c)
    \/ \E i \in 1..MaxRuns : AssignDeactivate(i)
    \/ \E i \in 1..MaxRuns : AssignCreate(i)
    \/ \E i \in 1..MaxRuns : AssignUpdate(i)

SpecTake == Init /\ [][NextTake]_vars

\* SpecRoute: processIncomingMessage invoked while earlier invocations are
\* suspended at their awaits.
NextRoute ==
    \/ \E u \in {1, 2} : Connect(u)
    \/ \E u \in {1, 2} : Disconnect(u)
    \/ \E b \in BOOLEAN : SetChatbot(b)
    \/ \E f \in 1..bound.convs : HandleIncomingMessage(1, f)
    \/ \E i \in 1..MaxRuns, c \in 1..bound.convs : RouteEnter(i, c)
    \/ \E i \in 1..MaxRuns, ai \in AiOutcomes \cup {"none"} : RouteDecide(i, ai)
    \/ \E i \in 1..MaxRuns : RouteBot(i)
    \/ \E i \in 1..MaxRuns : RouteFind(i)
    \/ \E i \in 1..MaxRuns : RouteCreate(i)
    \/ \E i \in 1..MaxRuns : RouteUpdate(i)

SpecRoute == Init /\ [][NextRoute]_vars

\* SpecInbound: the routing calls of the inbound handler next to invocations
\* of processIncomingMessage on the MessageProcessor, which may be suspended
\* at their awaits.
NextInbound ==
    \/ \E u \in {1, 2} : Connect(u)
    \/ \E u \in {1, 2} : Disconnect(u)
    \/ \E b \in BOOLEAN : SetChatbot(b)
    \/ \E f \in 1..bound.convs : HandleIncomingMessage(1, f)
    \/ \E c \in 1..bound.convs : DetachedProcessIncomingMessage(c)
    \/ \E i \in 1..MaxRuns, c \in 1..bound.convs : RouteEnter(i, c)
    \/ \E i \in 1..MaxRuns, ai \in AiOutcomes \cup {"none"} : RouteDecide(i, ai)
    \/ \E i \in 1..MaxRuns : RouteBot(i)
    \/ \E i \in 1..MaxRuns : RouteFind(i)
    \/ \E i \in 1..MaxRuns : RouteCreate(i)
    \/ \E i \in 1..MaxRuns : RouteUpdate(i)

SpecInbound == Init /\ [][NextInbound]_vars

\* Campaigns: the handlers of the campaign service run whole; the processCampaign
\* executions they start advance step by step between them.
NextCampaign ==
    \/ AccountReady
    \/ AccountDisconnected
    \/ \E scheduled \in BOOLEAN, total \in RecipientCounts : CreateCampaign(scheduled, total)
    \/ StartCampaign
    \/ CheckScheduledCampaigns
    \/ CancelCampaign
    \/ \E l \in 1..MaxRuns : LoopCheck(l)
    \/ \E l \in 1..MaxRuns, ok \in BOOLEAN : LoopRecipient(l, ok)
    \/ \E l \in 1..MaxRuns, ok \in BOOLEAN : LoopProgress(l, ok)
    \/ \E l \in 1..MaxRuns, ok \in BOOLEAN : LoopFinal(l, ok)
    \/ \E l \in 1..MaxRuns : LoopCatch(l)

SpecCampaign == Init /\ [][NextCampaign]_vars

\* Campaigns that nobody cancels: at most one processCampaign execution runs.
NextDispatch ==
    \/ AccountReady
    \/ AccountDisconnected
    \/ \E scheduled \in BOOLEAN, total \in RecipientCounts : CreateCampaign(scheduled, total)
    \/ StartCampaign
    \/ CheckScheduledCampaigns
    \/ \E l \in 1..MaxRuns : LoopCheck(l)
    \/ \E l \in 1..MaxRuns, ok \in BOOLEAN : LoopRecipient(l, ok)
    \/ \E l \in 1..MaxRuns, ok \in BOOLEAN : LoopProgress(l, ok)
    \/ \E l \in 1..MaxRuns, ok \in BOOLEAN : LoopFinal(l, ok)
    \/ \E l \in 1..MaxRuns : LoopCatch(l)

SpecDispatch == Init /\ [][NextDispatch]_vars

\* Campaigns of one batch that are started, cancelled and started again while
\* every send succeeds; only the progress update and the final update may throw.
NextStart ==
    \/ AccountReady
    \/ AccountDisconnected
    \/ \E scheduled \in BOOLEAN : CreateCampaign(scheduled, BatchSize)
    \/ StartCampaign
    \/ CheckScheduledCampaigns
    \/ CancelCampaign
    \/ \E l \in 1..MaxRuns : LoopCheck(l)
    \/ \E l \in 1..MaxRuns : LoopRecipient(l, TRUE)
    \/ \E l \in 1..MaxRuns, ok \in BOOLEAN : LoopProgress(l, ok)
    \/ \E l \in 1..MaxRuns, ok \in BOOLEAN : LoopFinal(l, ok)
    \/ \E l \in 1..MaxRuns : LoopCatch(l)

SpecStart == Init /\ [][NextStart]_vars

\* Presence: sockets of three users open with fresh ids and close, one handler
\* at a time; a disconnect may also name a socket that is not registered.
NextPresence ==
    \/ \E u \in SocketUsers, s \in Sockets \ DOMAIN socketUsers : SocketConnect(u, s)
    \/ \E s \in Sockets : SocketDisconnect(s)

SpecPresence == Init /\ [][NextPresence]_vars

\* Presence with the handlers interleaved: sockets of two users connect and
\* close, and every handler may be suspended at its awaits while others run.
NextHandlers ==
    \/ \E u \in {1, 2}, s \in Sockets : ConnectionBegin(u, s)
    \/ \E s \in Sockets : ConnectionUpdated(s)
    \/ \E s \in Sockets : ConnectionReady(s)
    \/ \E s \in Sockets : ClosedBeforeListener(s)
    \/ \E s \in Sockets : DisconnectBegin(s)
    \/ \E s \in Sockets : DisconnectUpdated(s)

SpecHandlers == Init /\ [][NextHandlers]_vars

\* Contact resolution: inbound WhatsApp messages create phone contacts, and
\* normalizeContact is called one call at a time.
NextContacts ==
    \/ \E phone \in Phones : CreatePhoneContact(phone)
    \/ \E e \in ExternalIds, ch \in Channels : NormalizeContact(e, ch)

SpecContacts == Init /\ [][NextContacts]_vars

\* The chatbot pipeline: an agent connects and disconnects, the chatbot is
\* switched on and off, inbound messages of one contact find or create its
\* conversation, and pipeline runs go through one at a time.
NextBot ==
    \/ Connect(1)
    \/ Disconnect(1)
    \/ \E b \in BOOLEAN : SetChatbot(b)
    \/ \E f \in 1..bound.convs : HandleIncomingMessage(1, f)
    \/ \E c \in 1..bound.convs, text \in UserTexts, completion \in Completions,
          withContact \in BOOLEAN, fail \in BotFailPoints :
            ProcessChatbotResponse(c, text, completion, withContact, fail)

SpecBot == Init /\ [][NextBot]_vars

\* ================================================================ claims
\* The load the routing rule speaks of: the user's active assignments on
\* conversations that are OPEN or PENDING.
OpenLoad(u) ==
    Cardinality({i \in DOMAIN conversationAgents :
                    /\ conversationAgents[i].userId = u
                    /\ conversationAgents[i].isActive
                    /\ conversations[conversationAgents[i].conversationId].status
                           \in ActiveStatuses})

\* The users the routing rule may select: online ACTIVE users of the company
\* with role AGENT or MANAGER.
Eligible ==
    {u \in Users : /\ UserCompany(u) = Company
                   /\ UserStatus(u) = "ACTIVE"
                   /\ isOnline[u]
                   /\ UserRole(u) \in {"AGENT", "MANAGER"}}

\* Some ACTIVE user of the company with role AGENT, MANAGER or ADMIN is online.
AgentOnline ==
    \E u \in Users : /\ UserCompany(u) = Company
                     /\ UserStatus(u) = "ACTIVE"
                     /\ isOnline[u]
                     /\ UserRole(u) \in {"AGENT", "MANAGER", "ADMIN"}

\* The step is a routing run that ran to its end.
RouteStep == last'.op = "route" /\ vars' # vars

\* C1: after any sequence of assignment operations run one at a time (HTTP
\* assign, conversation:take, the router's assignToAgent, the automation
\* assign_agent action), a conversation has at most one ConversationAgent
\* row with isActive = true.
C1_AtMostOneActiveAssignment ==
    \A c \in ConvIds : Cardinality(ActiveAssignments(conversationAgents, c)) <= 1

\* C1, the state that refutes it: a routing run has just assigned a
\* conversation that now has two active rows.
C1_RouterAddsSecondActiveRow ==
    /\ last.op = "route" /\ last.outcome = "assigned"
    /\ Cardinality(ActiveAssignments(conversationAgents, last.conv)) >= 2

\* C2: when two assignment attempts on one conversation interleave at their
\* store calls (two conversation:take, or two HTTP assigns), they do not both
\* succeed: once both have settled, the conversation has at most one active
\* ConversationAgent row.
C2_SettledAtMostOneActive ==
    Settled => \A c \in ConvIds :
                   Cardinality(ActiveAssignments(conversationAgents, c)) <= 1

\* C2, the state that refutes it: both attempts have settled and two
\* different users hold an active row on the same conversation.
C2_BothAttemptsSucceeded ==
    /\ Settled
    /\ \E i, j \in DOMAIN conversationAgents :
           /\ i # j
           /\ conversationAgents[i].isActive /\ conversationAgents[j].isActive
           /\ conversationAgents[i].conversationId = conversationAgents[j].conversationId
           /\ conversationAgents[i].userId # conversationAgents[j].userId

\* C3: in every reachable state each (contact, company) pair has at most one
\* conversation with status OPEN or PENDING, under inbound messages, close
\* and reopen.
C3_OneActiveConversationPerContact ==
    \A p \in Phones : Cardinality(FindActiveConversations(conversations, p)) <= 1

\* C3, the state that refutes it: a reopen has just left a contact with two
\* OPEN or PENDING conversations.
C3_ReopenMakesSecondActive ==
    /\ last.op = "reopen"
    /\ Cardinality(FindActiveConversations(
                       conversations, conversations[last.conv].contactId)) >= 2

\* C4: inbound events of one (contact, company) pair, processed one after
\* another with no close in between, get the same conversation id from
\* find-or-create every time, and no second conversation is created.
C4_SameConversationUntilClose ==
    [][\A p \in Phones :
           (lastFound[p] # NoConv /\ lastFound'[p] # NoConv)
               => lastFound'[p] = lastFound[p]]_vars

\* C4, the state that refutes it: an inbound message was recorded on one
\* conversation while the contact has another active conversation with a
\* higher id, so the contact's previous inbound message went elsewhere.
C4_InboundOnOtherConversation ==
    /\ last.op = "inbound"
    /\ \E c \in FindActiveConversations(conversations, conversations[last.conv].contactId) :
           c > last.conv

\* C5: a routing run whose lookups succeed uses the chatbot exactly when the
\* company has an active chatbot and (no agent is online, or the clock is
\* outside business hours, or the conversation has no active assignment).
C5_ChatbotExactlyWhen ==
    [][RouteStep =>
           (last'.useBot <=>
               /\ chatbotActive
               /\ \/ ~AgentOnline
                  \/ ~last'.bh
                  \/ ActiveAssignments(conversationAgents, last'.conv) = {})]_vars

\* C5, its case: a run used the bot on an assigned conversation although an
\* agent was online, because the clock was outside business hours.
C5_BotOutsideBusinessHours ==
    /\ last.op = "route" /\ last.useBot /\ ~last.bh
    /\ AgentOnline
    /\ ActiveAssignments(conversationAgents, last.conv) # {}

\* C6: a routing run on a conversation that has an active assignment, with
\* an agent online and within business hours, leaves the assignments as
\* they are: no ConversationAgent row is created.
C6_AssignedConversationKeepsAssignee ==
    [][(/\ RouteStep
        /\ ActiveAssignments(conversationAgents, last'.conv) # {}
        /\ AgentOnline
        /\ last'.bh)
           => conversationAgents' = conversationAgents]_vars

\* C6, the state that refutes it: after a run within business hours the
\* conversation has an active row of the agent the run selected and an
\* older active row of another agent.
C6_RunReassignedConversation ==
    /\ last.op = "route" /\ last.outcome = "assigned" /\ last.bh
    /\ \E i, j \in ActiveAssignments(conversationAgents, last.conv) :
           /\ i < j
           /\ conversationAgents[j].userId = last.agent
           /\ conversationAgents[i].userId # last.agent

\* C7: the agent a routing run selects is an eligible user whose number of
\* active assignments on OPEN/PENDING conversations is minimal among the
\* eligible users; no agent is selected only when no user is eligible.
C7_SelectsLeastLoaded ==
    [][(RouteStep /\ last'.outcome \in {"assigned", "pending"})
           => IF Eligible = {}
              THEN last'.agent = NoOne
              ELSE /\ last'.agent \in Eligible
                   /\ \A v \in Eligible : OpenLoad(last'.agent) <= OpenLoad(v)]_vars

\* C7, the state that refutes it: a run selected an agent while another
\* online agent's only active row is on a CLOSED conversation.
C7_ClosedRowCounted ==
    /\ last.op = "route" /\ last.outcome = "assigned"
    /\ \E v \in Eligible \ {last.agent} :
           /\ OpenLoad(v) = 0
           /\ AgentsLength(conversationAgents, v) > 0
           /\ OpenLoad(last.agent) > 1

\* C8: when several eligible agents tie for the fewest active assignments,
\* the run selects the one with the lowest id.
C8_TieSelectsLowestId ==
    [][(RouteStep /\ last'.agent # NoOne)
           => \A v \in Eligible :
                  OpenLoad(v) = OpenLoad(last'.agent) => last'.agent <= v]_vars

\* C8, the state that refutes it: a run assigned the first conversation to
\* agent 2 while agent 1 was online with no assignment either.
C8_TieSelectedHigherId ==
    /\ last.op = "route" /\ last.outcome = "assigned" /\ last.agent = 2
    /\ isOnline[1]
    /\ Len(conversationAgents) = 1

\* C9: for each conversation at most one routing run is in flight (between
\* taking and releasing the conversation's processingQueue entry).
C9_OneRunInFlight ==
    \A c \in ConvIds :
        Cardinality({i \in DOMAIN procs :
                        procs[i].kind = "route" /\ procs[i].conv = c}) <= 1

\* C9, the state that refutes it: two overlapping runs on one conversation
\* have each created a ConversationAgent row.
C9_TwoRunsBothAssigned ==
    \E i, j \in DOMAIN procs :
        /\ i # j
        /\ procs[i].kind = "route" /\ procs[j].kind = "route"
        /\ procs[i].conv = procs[j].conv
        /\ procs[i].pc = "status" /\ procs[j].pc = "status"
        /\ procs[i].user # NoOne /\ procs[j].user # NoOne

\* C10: a routing run in which the online-agent lookup or the available-agent
\* lookup fails leaves the conversation in status PENDING.
C10_LookupFailureEndsPending ==
    (last.op = "route" /\ last.fail \in {"online", "agents"})
        => conversations[last.conv].status = "PENDING"

\* C10, the state that refutes it: the available-agent lookup failed and the
\* conversation is still OPEN with no assignment.
C10_FailedLookupLeavesOpen ==
    /\ last.op = "route" /\ last.fail = "agents"
    /\ conversations[last.conv].status = "OPEN"
    /\ ActiveAssignments(conversationAgents, last.conv) = {}

\* C11: each human-routing run ends in exactly one of two outcomes: with no
\* eligible agent the status becomes PENDING and conversation:pending is
\* emitted; otherwise an active assignment to the selected agent is
\* created, the status becomes OPEN and conversation:assigned naming that
\* agent is emitted.
C11_HumanRoutingOutcome ==
    [][(RouteStep /\ last'.outcome # "bot")
           => IF Eligible = {}
              THEN /\ conversations'[last'.conv].status = "PENDING"
                   /\ last'.event = "conversation:pending"
                   /\ conversationAgents' = conversationAgents
              ELSE /\ last'.agent \in Eligible
                   /\ conversationAgents' =
                          CreateAssignment(conversationAgents, last'.agent, last'.conv)
                   /\ conversations'[last'.conv].status = "OPEN"
                   /\ last'.event = "conversation:assigned"]_vars

\* C11, the state that refutes it: a run selected an agent, the create
\* failed, and the run ended with no assignment and no event.
C11_RunEndedWithoutOutcome ==
    /\ last.op = "route" /\ last.fail = "create"
    /\ last.agent # NoOne
    /\ last.event = "none"
    /\ ActiveAssignments(conversationAgents, last.conv) = {}

\* ----------------------------------------------------------- campaigns
\* No processCampaign execution is in flight.
LoopsStopped == \A l \in DOMAIN loops : loops[l].pc = "idle"

\* C12: once cancelCampaign has succeeded on a SENDING campaign and its
\* dispatch loop has stopped, the persisted status is CANCELLED and stays
\* CANCELLED; the stopped loop does not mark the campaign SENT.
C12_CancelledStaysCancelled ==
    (history.cancelled /\ LoopsStopped) => campaign.status = "CANCELLED"

\* C12: a campaign started once and cancelled whose loop, stopped by the
\* cancel, has written SENT over CANCELLED.
C12_StoppedLoopMarkedSent ==
    /\ history.cancelled /\ history.starts = 1
    /\ LoopsStopped
    /\ last.op = "processCampaign" /\ last.outcome = "stopped"
    /\ campaign.status = "SENT"

\* C13: a dispatch loop that a cancel found between batches sends to no
\* recipient of a later batch, one that a cancel found inside a batch finishes
\* that batch only, and the counters it leaves add up to the recipients of the
\* batches it was allowed (sent + failed = 10 after a cancel behind batch 1).
C13_CancelStopsAtBatchBoundary ==
    /\ [](\A l \in DOMAIN loops : loops[l].stopAt >= 0 => loops[l].j <= loops[l].stopAt)
    /\ [][\A l \in DOMAIN loops :
            (loops[l].stopAt >= 0 /\ loops[l].pc = "final" /\ loops'[l].pc = "idle")
                => campaign'.results.sent + campaign'.results.failed = loops[l].stopAt]_vars

\* C13: a loop cancelled behind a completed batch is inside a later batch.
C13_CancelledLoopSentLaterBatch ==
    \E l \in DOMAIN loops :
        /\ loops[l].stopAt >= BatchSize
        /\ loops[l].j > loops[l].stopAt

TerminalStatuses == {"SENT", "CANCELLED", "FAILED"}

\* The status chain: created as DRAFT or SCHEDULED, then SENDING, then one of
\* the terminal statuses.
StatusChain ==
    {<<"NONE", "DRAFT">>, <<"NONE", "SCHEDULED">>, <<"NONE", "SENDING">>,
     <<"DRAFT", "SCHEDULED">>, <<"DRAFT", "SENDING">>, <<"SCHEDULED", "SENDING">>,
     <<"SENDING", "SENT">>, <<"SENDING", "CANCELLED">>, <<"SENDING", "FAILED">>}

\* C14: the status of a campaign moves along the chain only, and once it is
\* SENT, CANCELLED or FAILED no step changes it again or processes a further
\* recipient (beyond the batch a cancel found the loop in).
C14_StatusMovesForwardOnly ==
    [][/\ campaign'.status # campaign.status
            => <<campaign.status, campaign'.status>> \in StatusChain
       /\ campaign.status \in TerminalStatuses
            => \A l \in DOMAIN loops :
                  loops'[l].j > loops[l].j => loops'[l].j <= loops[l].stopAt]_vars

\* C14: startCampaign has put a campaign that was CANCELLED or FAILED back
\* into SENDING.
C14_TerminalCampaignRestarted ==
    /\ last.op = "startCampaign" /\ last.ok
    /\ history.starts = 2
    /\ campaign.status = "SENDING"

\* The sizes of consecutive batches of at most 10 that cover `total`
\* recipients: every batch but the last is full.
BatchesOf(b, total) ==
    /\ \A n \in DOMAIN b : b[n] >= 1 /\ b[n] <= 10
    /\ \A n \in DOMAIN b : n < Len(b) => b[n] = 10
    /\ Len(b) >= 1 /\ 10 * (Len(b) - 1) + b[Len(b)] = total

\* C15: in a campaign started once and not cancelled, the next recipient
\* processed is always the one behind those already processed (list order),
\* each processed recipient has incremented exactly one of sent and failed,
\* and a loop that runs to completion has worked in consecutive batches of at
\* most 10 (25 recipients: 10, 10, 5) and leaves sent + failed = recipients.
C15_BatchesInOrderCountersAddUp ==
    /\ [](\A l \in DOMAIN loops :
            (history.starts = 1 /\ ~history.cancelled /\ loops[l].pc # "idle")
                => /\ loops[l].pc = "batch" => loops[l].k = loops[l].j
                   /\ loops[l].sent + loops[l].failed = loops[l].j
                   /\ loops[l].errors = loops[l].failed)
    /\ [][\A l \in DOMAIN loops :
            (history.starts = 1 /\ ~history.cancelled
               /\ loops[l].pc = "final" /\ loops'[l].pc = "idle")
                => /\ campaign'.status = "SENT"
                   /\ campaign'.results.sent + campaign'.results.failed = campaign.total
                   /\ BatchesOf(loops[l].batches, campaign.total)
                   /\ campaign.total = 25 => loops[l].batches = <<10, 10, 5>>]_vars

\* C15: a campaign of MaxRecipients recipients, started once, has run to completion with
\* some sends failing.
C15_CompletedTwentyFive ==
    /\ last.op = "processCampaign" /\ last.outcome = "completed"
    /\ history.starts = 1 /\ ~history.cancelled
    /\ campaign.total = MaxRecipients
    /\ campaign.status = "SENT"
    /\ campaign.results.failed > 0 /\ campaign.results.sent > 0

\* C16: startCampaign on a campaign that is SENDING or SENT, or while the
\* company has no CONNECTED account, fails and changes nothing (status,
\* results, registry and executions as before, no loop started); on any other
\* existing campaign it sets SENDING and returns while the dispatch, suspended
\* before its first batch, has processed no recipient.
C16_StartRejectsOrReturnsEarly ==
    [][(StartCampaign /\ campaign.status # "NONE")
          => IF campaign.status \in {"SENDING", "SENT"} \/ ~accountConnected
             THEN /\ ~last'.ok
                  /\ campaignVars' = campaignVars
             ELSE /\ last'.ok
                  /\ campaign' = [campaign EXCEPT !.status = "SENDING"]
                  /\ CampaignId \in runningCampaigns'
                  /\ \E l \in DOMAIN loops :
                        /\ loops[l].pc = "idle"
                        /\ loops'[l].pc = "check" /\ loops'[l].j = 0
                        /\ \A m \in DOMAIN loops \ {l} : loops'[m] = loops[m]]_vars

\* C16: startCampaign was refused on a SENT campaign whose company has a
\* CONNECTED account.
C16_StartRefusedOnSent ==
    /\ last.op = "startCampaign" /\ ~last.ok
    /\ campaign.status = "SENT"
    /\ accountConnected

\* C17: a send that fails for one recipient adds one to results.failed and one
\* entry to results.errors and the loop goes on with the next recipient (or
\* the batch's progress update); the outer catch, which marks the campaign
\* FAILED, is entered only from the progress update or the final update.
C17_SendFailureIsPerRecipient ==
    [][\A l \in DOMAIN loops :
          /\ (loops[l].pc = "batch" /\ loops'[l].j = loops[l].j + 1
                 /\ loops'[l].sent = loops[l].sent)
                => /\ loops'[l].failed = loops[l].failed + 1
                   /\ loops'[l].errors = loops[l].errors + 1
                   /\ loops'[l].pc \in {"batch", "progress"}
                   /\ loops'[l].pc = "batch" => loops'[l].k = loops[l].k + 1
                   /\ campaign'.status = campaign.status
          /\ (loops'[l].pc = "catch" /\ loops[l].pc # "catch")
                => loops[l].pc \in {"progress", "final"}
          /\ (campaign'.status = "FAILED" /\ campaign.status # "FAILED")
                => \E m \in DOMAIN loops : loops[m].pc = "catch"]_vars

\* C17: a loop that has had MaxFailures sends fail is still inside a batch of
\* a SENDING campaign.
C17_FailedSendsLoopGoesOn ==
    \E l \in DOMAIN loops :
        /\ loops[l].pc = "batch"
        /\ loops[l].failed = MaxFailures /\ loops[l].errors = MaxFailures
        /\ loops[l].sent > 0
        /\ campaign.status = "SENDING"

\* ------------------------------------------------------------ presence
\* The sockets of a user that were connected and have not been disconnected.
LiveSockets(u) == {s \in Sockets : <<u, s>> \in liveConns}

\* C18: after any sequence of connects and disconnects, isUserOnline(u) is
\* true exactly when some socket registered for u has not been disconnected,
\* and getOnlineUsers() is exactly the set of such users.
C18_OnlineIffLiveConnection ==
    /\ \A u \in Users : IsUserOnline(userSockets, u) <=> LiveSockets(u) # {}
    /\ GetOnlineUsers(userSockets) = {u \in Users : LiveSockets(u) # {}}

\* C18: user 1 has just closed one of its sockets and is still online through
\* another one; nobody else is online.
C18_OneOfTwoClosed ==
    /\ last.op = "disconnect" /\ last.agent = 1
    /\ Cardinality(LiveSockets(1)) = 1
    /\ IsUserOnline(userSockets, 1)
    /\ GetOnlineUsers(userSockets) = {1}

\* C19: a disconnect announces user:offline and clears the persisted flag only
\* when the owner of the socket is left with no connected socket; closing one
\* of several sockets of a user announces nothing and leaves the flag set.
C19_OfflineOnlyOnLastSocket ==
    [][\A s \in DOMAIN socketUsers :
          SocketDisconnect(s)
            => LET u == socketUsers[s] IN
               /\ (last'.event = "user:offline" \/ isOnline'[u] # isOnline[u])
                     => LiveSockets(u) \ {s} = {}
               /\ LiveSockets(u) \ {s} # {}
                     => /\ last'.event = "none"
                        /\ isOnline[u] /\ isOnline'[u]]_vars

\* C19: user 1 has closed one of two sockets: nothing was announced and the
\* persisted flag is still set.
C19_PartialDisconnectSilent ==
    /\ last.op = "disconnect" /\ last.agent = 1 /\ last.event = "none"
    /\ LiveSockets(1) # {}
    /\ isOnline[1]

\* --------------------------------------------------- contact resolution
\* C20: a normalizeContact call that directly follows a call with the same
\* (channel, externalId) returns the Contact id that call returned and creates
\* no Contact.
C20_RepeatedResolveSameContact ==
    lastResolve.prev # 0 => (lastResolve.id = lastResolve.prev /\ ~lastResolve.grew)

\* C20: two calls in a row with the same (channel, externalId) returned
\* different Contacts.
C20_RepeatedResolveOtherContact ==
    /\ lastResolve.prev # 0
    /\ lastResolve.id # lastResolve.prev
    /\ Len(contactTable) = 2

\* ------------------------------------------------- chatbot pipeline claims
\* The last call of the latest pipeline run.
LastCall == pipeline.calls[Len(pipeline.calls)]

\* The latest pipeline run handed the conversation to assignToAgent.
Escalated == pipeline.conv # NoConv /\ LastCall = "assignToAgent"

\* C21: when the completion call fails, generateAIResponse returns the fixed
\* fallback reply with the transfer flag set, and the pipeline run then calls
\* assignToAgent for the conversation instead of ending without a call.
C21_FailedCompletionFallsBackAndEscalates ==
    pipeline.aiFailed =>
        /\ pipeline.message = FallbackReply
        /\ pipeline.shouldTransferToAgent
        /\ LastCall = "assignToAgent"

C21_Witness ==
    /\ pipeline.aiFailed
    /\ pipeline.userText = Greeting
    /\ LastCall = "assignToAgent"
    /\ last.outcome = "assigned"

\* A keyword of the transfer vocabulary occurs in the text, whatever its case.
MentionsKeyword(text) ==
    \E keyword \in TransferKeywords : Includes(ToLowerCase(text), keyword)

\* C22: the transfer flag is set whenever the user message or the generated
\* reply contains a word of the transfer vocabulary in any case, and the
\* message "quero falar com um atendente humano" escalates whatever the
\* completion returns.
C22_KeywordForcesEscalation ==
    pipeline.aiCalled =>
        /\ (pipeline.userText = WantsHuman => pipeline.shouldTransferToAgent)
        /\ (MentionsKeyword(pipeline.userText) \/ MentionsKeyword(pipeline.message)
                => pipeline.shouldTransferToAgent /\ LastCall = "assignToAgent")

C22_Witness ==
    /\ pipeline.aiCalled /\ ~pipeline.aiFailed
    /\ pipeline.userText = Urgent
    /\ pipeline.message = ReplyPlain
    /\ pipeline.shouldTransferToAgent

\* C23: after a pipeline run has escalated a conversation, the conversation
\* has an active assignment or is PENDING, also when the agent lookup or the
\* assignment write of that run failed.
C23_EscalatedIsAssignedOrPending ==
    Escalated =>
        \/ IsConversationAssigned(conversationAgents, pipeline.conv)
        \/ conversations[pipeline.conv].status = "PENDING"

\* C23: the run escalated on the user's request for a human, the agent
\* lookup threw, and the conversation is OPEN with no active assignment.
C23_EscalatedLeftOpenUnassigned ==
    /\ Escalated
    /\ pipeline.userText = WantsHuman
    /\ last.op = "route" /\ last.fail = "agents"
    /\ conversations[pipeline.conv].status = "OPEN"
    /\ ~IsConversationAssigned(conversationAgents, pipeline.conv)

\* C24: a pipeline run whose reply asks for a transfer calls assignToAgent
\* right after generateAIResponse, evaluates shouldUseChatbot only once, at
\* its start, and neither persists nor delivers the generated reply.
C24_EscalationGoesStraightToAssignment ==
    [][(last'.op = "route" /\ pipeline'.shouldTransferToAgent)
          => /\ pipeline'.calls = <<"shouldUseChatbot", "processChatbotResponse",
                                    "generateAIResponse", "assignToAgent">>
             /\ messages' = messages
             /\ delivered' = delivered]_vars

\* C24: the completion answered with a reply that names the manager; the run
\* assigned the conversation and no bot message exists.
C24_ManagerReplyNotSent ==
    /\ pipeline.shouldTransferToAgent /\ ~pipeline.aiFailed
    /\ pipeline.userText = Greeting /\ pipeline.message = ReplyManager
    /\ last.op = "route" /\ last.outcome = "assigned"
    /\ messages = <<>> /\ delivered = <<>>

\* C25: every pipeline run that got a reply from generateAIResponse, the
\* fallback reply included, and in which no call threw, persists the reply as
\* an OUTBOUND chatbot message without user and delivers it, and does so
\* before it calls assignToAgent.
C25_ReplySentBeforeEscalation ==
    [][(last'.op = "route" /\ last'.fail = "none" /\ pipeline'.aiCalled)
          => /\ messages' = Append(messages,
                                   BotMessage(pipeline'.conv, pipeline'.message))
             /\ delivered' = Append(delivered, pipeline'.message)
             /\ \A i, j \in 1..Len(pipeline'.calls) :
                    (pipeline'.calls[i] = "assignToAgent"
                        /\ pipeline'.calls[j] = "sendMessage") => j < i]_vars

\* C25: the completion failed, generateAIResponse returned the fallback
\* reply, the run assigned the conversation without a throwing call, and no
\* bot message was persisted or delivered.
C25_FallbackReplyNeverSent ==
    /\ pipeline.aiFailed /\ pipeline.message = FallbackReply
    /\ last.op = "route" /\ last.fail = "none" /\ last.outcome = "assigned"
    /\ LastCall = "assignToAgent"
    /\ messages = <<>> /\ delivered = <<>>

\* --------------------------------------------- conversation state machine
\* C26: when a close of a conversation has completed, through the socket
\* event or either HTTP route, the conversation is CLOSED and has no active
\* ConversationAgent row, and every row it had is still there, with the same
\* user, deactivated.
C26_CloseLeavesClosedAndUnassigned ==
    [][\A c \in 1..bound.convs :
          (last'.op = "close" /\ last'.conv = c)
             => /\ conversations'[c].status = "CLOSED"
                /\ ActiveAssignments(conversationAgents', c) = {}
                /\ Len(conversationAgents') = Len(conversationAgents)
                /\ \A i \in DOMAIN conversationAgents :
                       /\ conversationAgents'[i].userId = conversationAgents[i].userId
                       /\ conversationAgents'[i].conversationId
                              = conversationAgents[i].conversationId
                       /\ conversationAgents[i].conversationId # c
                              => conversationAgents'[i] = conversationAgents[i]]_vars

\* C26: conversation 1 was assigned and has just been closed: it is CLOSED
\* and its row is kept, inactive.
C26_ClosedWithInactiveRow ==
    /\ last.op = "close" /\ last.conv = 1
    /\ conversations[1].status = "CLOSED"
    /\ \E i \in DOMAIN conversationAgents : conversationAgents[i].conversationId = 1
    /\ ActiveAssignments(conversationAgents, 1) = {}

\* The status changes the conversation state machine allows.
AllowedStatusChanges ==
    {<<"PENDING", "OPEN">>, <<"OPEN", "PENDING">>, <<"OPEN", "CLOSED">>,
     <<"PENDING", "CLOSED">>, <<"CLOSED", "PENDING">>}

\* C27: a conversation's status changes only along PENDING -> OPEN,
\* OPEN -> PENDING, OPEN/PENDING -> CLOSED and CLOSED -> PENDING, the last
\* only by a reopen, and a CLOSED conversation gets no active assignment from
\* an assign or take.
C27_StatusChangesAlongStateMachine ==
    [][\A c \in DOMAIN conversations :
          LET from == conversations[c].status
              to == conversations'[c].status
          IN  /\ from # to => <<from, to>> \in AllowedStatusChanges
              /\ (from = "CLOSED" /\ to # "CLOSED") => last'.op = "reopen"
              /\ (from = "CLOSED" /\ ActiveAssignments(conversationAgents, c) = {})
                     => ActiveAssignments(conversationAgents', c) = {}]_vars

\* C27: no reopen exists in this specification; conversation 2 was created
\* because conversation 1 was CLOSED, and conversation:take has just made
\* conversation 1 OPEN with an active assignment.
C27_ClosedConversationTaken ==
    /\ Len(conversations) = 2
    /\ last.op = "take" /\ last.ok /\ last.conv = 1
    /\ conversations[1].status = "OPEN"
    /\ ActiveAssignments(conversationAgents, 1) # {}

\* Active assignments of conversation c to somebody other than agent a.
AssignedToOther(ca, c, a) ==
    {i \in ActiveAssignments(ca, c) : ca[i].userId # a}

\* C28: when the router selects an agent for a conversation that has an
\* active assignment to a different agent, the run changes neither the
\* assignments nor the conversation; when there is none, the conversation
\* ends OPEN with the selected agent's row as its only active assignment.
C28_AssignmentRefusedWhenAssignedToOther ==
    [][\A c \in DOMAIN conversations :
          (last'.op = "route" /\ last'.conv = c /\ last'.agent # NoOne)
             => IF AssignedToOther(conversationAgents, c, last'.agent) # {}
                THEN /\ conversationAgents' = conversationAgents
                     /\ conversations' = conversations
                ELSE /\ conversations'[c].status = "OPEN"
                     /\ ActiveAssignments(conversationAgents', c)
                            = {Len(conversationAgents')}
                     /\ conversationAgents'[Len(conversationAgents')].userId
                            = last'.agent]_vars

\* C28: the router has just assigned conversation 1 to agent 2 while agent 1
\* holds an active assignment on it: both rows are active.
C28_RouterAssignedOverOtherAgent ==
    /\ last.op = "route" /\ last.conv = 1 /\ last.outcome = "assigned" /\ last.agent = 2
    /\ \E i, j \in ActiveAssignments(conversationAgents, 1) :
           conversationAgents[i].userId = 1 /\ conversationAgents[j].userId = 2

\* C29: a transfer of an existing conversation to a department of the
\* caller's company leaves it PENDING, in that department, with no active
\* assignment and every row kept; a transfer to a department that is missing
\* or belongs to another company is refused and changes nothing.
C29_TransferLeavesPendingInDepartment ==
    [][\A u \in Staff, c \in DOMAIN conversations, d \in DepartmentIds :
          TransferConversation(u, c, d)
             => IF d \in Departments /\ DepartmentCompany(d) = UserCompany(u)
                THEN /\ conversations'[c].status = "PENDING"
                     /\ conversations'[c].departmentId = d
                     /\ ActiveAssignments(conversationAgents', c) = {}
                     /\ Len(conversationAgents') = Len(conversationAgents)
                     /\ last'.op = "transfer"
                ELSE /\ conversations' = conversations
                     /\ conversationAgents' = conversationAgents
                     /\ last' = Rejected]_vars

\* C29: conversation 1 was taken by an agent and has just been transferred
\* to department 2: it is PENDING there and its row is inactive.
C29_TakenThenTransferred ==
    /\ last.op = "transfer" /\ last.conv = 1
    /\ conversations[1].status = "PENDING"
    /\ conversations[1].departmentId = 2
    /\ \E i \in DOMAIN conversationAgents : conversationAgents[i].conversationId = 1
    /\ ActiveAssignments(conversationAgents, 1) = {}

\* The channels of a channel list, as a set.
ChannelSet(channels) == {channels[i] : i \in DOMAIN channels}

\* C30: an inbound message of a contact with no OPEN or PENDING conversation
\* creates one in status PENDING with no active assignment; when the contact
\* has one, no conversation is created, and the omnichannel entry point
\* returns it with the inbound channel in its channel set and every earlier
\* channel kept.
C30_InboundCreatesPending ==
    [][/\ Len(conversations') > Len(conversations)
          => /\ FindActiveConversations(conversations, 1) = {}
             /\ conversations'[Len(conversations')].status = "PENDING"
             /\ ActiveAssignments(conversationAgents', Len(conversations')) = {}
       /\ (last'.op \in {"inbound", "unified"}
              /\ FindActiveConversations(conversations, 1) # {})
          => /\ Len(conversations') = Len(conversations)
             /\ last'.conv \in FindActiveConversations(conversations, 1)
             /\ \A c \in DOMAIN conversations :
                    ChannelSet(conversations[c].channels)
                       \subseteq ChannelSet(conversations'[c].channels)
             /\ last'.op = "unified"
                    => \E ch \in Channels :
                         ChannelSet(conversations'[last'.conv].channels)
                            = ChannelSet(conversations[last'.conv].channels) \cup {ch}]_vars

\* C30: the omnichannel entry point has just created conversation 2 for a
\* contact whose conversation 1 is closed, and the new conversation is OPEN.
C30_UnifiedConversationCreatedOpen ==
    /\ last.op = "unified" /\ last.outcome = "created" /\ last.conv = 2
    /\ conversations[1].status = "CLOSED"
    /\ conversations[2].status = "OPEN"
    /\ conversations[2].channels = <<"EMAIL">>

\* -------------------------------------------------------------- messages
\* C31: a stored message status is SENT, DELIVERED or FAILED, and the status
\* of a message changes only from SENT to DELIVERED or FAILED, through a send
\* handler or the status webhook.
C31_StatusSettlesOnce ==
    [][/\ \A i \in DOMAIN messages' :
             messages'[i].status \in {"SENT", "DELIVERED", "FAILED"}
       /\ \A i \in DOMAIN messages :
             messages'[i].status # messages[i].status
                => /\ messages[i].status = "SENT"
                   /\ messages'[i].status \in {"DELIVERED", "FAILED"}]_vars

\* C31: message 1 was delivered by a send handler and the status webhook has
\* just stored READ on it.
C31_DeliveredMessageBecameRead ==
    /\ last.op = "status"
    /\ Len(messages) >= 1
    /\ messages[1].whatsappId = 1
    /\ messages[1].status = "READ"

\* C33: a POST /conversations/:id/messages by a caller with no active
\* assignment on the conversation is answered 403 and creates no message,
\* whatever the caller's role; a caller with an active assignment who is
\* answered 201 has created an OUTBOUND message.
C33_SendRequiresAssignment ==
    [][(last'.outcome \in {"201", "500", "403"} /\ last'.op \in {"send", "rejected"})
          => IF ~IsAssignedTo(conversationAgents, last'.conv, last'.agent)
             THEN /\ last'.outcome = "403"
                  /\ messages' = messages
             ELSE /\ last'.outcome # "403"
                  /\ last'.outcome = "201"
                        => /\ Len(messages') = Len(messages) + 1
                           /\ messages'[Len(messages')].direction = "OUTBOUND"
                           /\ messages'[Len(messages')].userId = last'.agent]_vars

\* C33: the MANAGER, who has no assignment on conversation 1, was answered
\* 201 and the message is stored.
C33_UnassignedManagerSent ==
    /\ last.op = "send" /\ last.outcome = "201" /\ last.agent = 2 /\ last.conv = 1
    /\ ~IsAssignedTo(conversationAgents, 1, 2)
    /\ \E i \in DOMAIN messages :
           messages[i].userId = 2 /\ messages[i].conversationId = 1

\* The acceptance numbers of a sequence are in increasing order.
InAcceptanceOrder(seq) ==
    \A i, j \in DOMAIN seq : i < j => seq[i] < seq[j]

\* No message:send handler is in flight.
SendsSettled == \A i \in DOMAIN ordering.runs : ordering.runs[i] = NoSend

\* C32: the messages sent on one conversation are persisted in the order in
\* which their handlers were accepted and message:new is emitted in that
\* order, also when the handlers interleave at their awaits; once every
\* handler has ended, every persisted message has been emitted.
C32_PersistedAndEmittedInAcceptanceOrder ==
    /\ InAcceptanceOrder(ordering.persisted)
    /\ InAcceptanceOrder(ordering.emitted)
    /\ SendsSettled
          => \A k \in DOMAIN ordering.persisted :
                \E e \in DOMAIN ordering.emitted :
                   ordering.emitted[e] = ordering.persisted[k]

\* C32: two sends on conversation 1 were accepted one after the other and
\* both were delivered; the second was persisted and emitted first.
C32_SecondSendOvertookFirst ==
    /\ SendsSettled
    /\ ordering.persisted = <<2, 1>>
    /\ ordering.emitted = <<2, 1>>
    /\ \A i \in DOMAIN messages : messages[i].conversationId = 1

\* ------------------------------------------------ campaigns, second part
\* C34: createCampaign with valid recipients succeeds whatever the state of
\* the channel accounts, and leaves the campaign DRAFT when no send time was
\* given and SCHEDULED when one was.
C34_CreatedDraftOrScheduled ==
    [][last'.op = "createCampaign"
          => /\ last'.ok
             /\ campaign'.status \in {"DRAFT", "SCHEDULED"}]_vars

\* C34: a campaign was created without a send time while an account is
\* connected: createCampaign succeeded and the campaign is SENDING.
C34_CreatedCampaignIsSending ==
    /\ last.op = "createCampaign" /\ last.ok
    /\ accountConnected
    /\ campaign.status = "SENDING"
    /\ history.starts = 1

\* The campaign is SCHEDULED with a send time that has come.
Due(i) ==
    /\ i \in DOMAIN sweep.rows
    /\ sweep.rows[i].status = "SCHEDULED"
    /\ sweep.rows[i].scheduledAt <= sweep.now

\* C35: a run of the sweep calls start on exactly the SCHEDULED campaigns
\* whose send time is not later than now, every one of them whose company has
\* a connected account becomes SENDING whether or not another start failed,
\* no other campaign changes, and a due campaign of a company whose account
\* stays connected is eventually SENDING.
C35_SweepStartsDueCampaigns ==
    /\ [][SweepScheduledCampaigns
             => /\ sweep'.found = {i \in DOMAIN sweep.rows : Due(i)}
                /\ \A i \in DOMAIN sweep.rows :
                      IF Due(i) /\ sweep.rows[i].company = Company /\ accountConnected
                      THEN sweep'.rows[i].status = "SENDING"
                      ELSE sweep'.rows[i] = sweep.rows[i]]_vars
    /\ \A i \in 1..MaxCampaigns :
          (Due(i) /\ sweep.rows[i].company = Company)
             ~> (~accountConnected
                    \/ (i \in DOMAIN sweep.rows /\ sweep.rows[i].status = "SENDING"))

\* C35: campaign 1, of the company without a connected account, was due and
\* its start failed; campaign 2, due in the same run, is SENDING, and time
\* has not run out.
C35_StartedAfterFailedStart ==
    /\ last.op = "checkScheduledCampaigns"
    /\ sweep.found = {1, 2}
    /\ sweep.rows[1].company = 2 /\ sweep.rows[1].status = "SCHEDULED"
    /\ sweep.rows[2].company = 1 /\ sweep.rows[2].status = "SENDING"

\* ------------------------------------------ presence under interleaving
\* No connection or disconnect handler is suspended at an await.
NoHandlerInFlight ==
    \A s \in Sockets : handlers[s].pc \in {"none", "open", "closed"}

\* C36: whenever no connection or disconnect handler is in flight, every
\* user's persisted isOnline flag equals what the PresenceManager's
\* isUserOnline answers for that user, however the handlers interleaved at
\* their store awaits.
C36_FlagEqualsTrackerWhenSettled ==
    NoHandlerInFlight
       => \A u \in Staff : isOnline[u] = IsUserOnline(userSockets, u)

\* C36: user 1 closed its only socket and opened another one while the
\* disconnect handler's update was still under way; the connection handler's
\* update landed first.  All handlers have returned, the PresenceManager has
\* user 1 online through an open socket, and the persisted flag says offline.
C36_OfflineFlagWithOpenSocket ==
    /\ NoHandlerInFlight
    /\ \E s \in Sockets : handlers[s].pc = "open" /\ handlers[s].user = 1
                            /\ <<1, s>> \in liveConns
    /\ IsUserOnline(userSockets, 1)
    /\ ~isOnline[1]

\* ------------------------------------------------ overlapping dispatches
\* The processCampaign executions under way.
RunningLoops == {l \in DOMAIN loops : loops[l].pc # "idle"}

\* The executions under way that have processed recipients[k - 1]: every
\* execution walks the list from its first entry, so these are the ones
\* that have processed k recipients or more.
ProcessedBy(k) == {l \in RunningLoops : loops[l].j >= k}

\* C37: however the start calls on a campaign interleave (a manual start,
\* the start inside createCampaign, the scheduled sweep, a start after a
\* cancel), at most one dispatch loop runs at a time and no recipient is sent
\* the message by two of them.
C37_OneLoopEachRecipientOnce ==
    /\ Cardinality(RunningLoops) <= 1
    /\ \A k \in 1..MaxRecipients : Cardinality(ProcessedBy(k)) <= 1

\* C37: the campaign was cancelled and started again while the cancelled
\* loop was still under way; both loops have sent to the first recipient.
C37_TwoLoopsSentFirstRecipient ==
    /\ history.cancelled /\ history.starts = 2
    /\ Cardinality(RunningLoops) = 2
    /\ Cardinality(ProcessedBy(1)) = 2

\* ------------------------------- contacts of channels without phone or email
\* C38: on a channel that gives neither a phone nor an email (Instagram),
\* normalizeContact returns an existing Contact only if that Contact's
\* identifier map already held channel -> externalId, and no call replaces the
\* identifier another sender has on that channel: two senders get two Contacts.
C38_ResolvedByIdentifierOnly ==
    [][lastResolve'.channel = "INSTAGRAM"
          => /\ ~lastResolve'.grew
                   => contactTable[lastResolve'.id].externalIds["INSTAGRAM"]
                         = lastResolve'.externalId
             /\ \A i \in DOMAIN contactTable :
                   contactTable[i].externalIds["INSTAGRAM"] # Null
                      => contactTable'[i].externalIds["INSTAGRAM"]
                            = contactTable[i].externalIds["INSTAGRAM"]]_vars

\* C38: only Instagram senders have written so far, the call before this one
\* was for another sender, and the call for sender 2 was answered with the one
\* Contact there is, whose Instagram identifier is now sender 2's.
C38_SecondSenderTookFirstContact ==
    /\ lastResolve.channel = "INSTAGRAM" /\ lastResolve.externalId = 2
    /\ lastResolve.id = 1 /\ ~lastResolve.grew /\ lastResolve.prev = 0
    /\ Len(contactTable) = 1
    /\ contactTable[1].phone = Null /\ contactTable[1].email = Null
    /\ contactTable[1].externalIds = [NoExternalIds EXCEPT !["INSTAGRAM"] = 2]

\* ------------------------------------------- every message gets routed
RoutingOutcomes == {"bot", "assigned", "pending"}

\* C39: every inbound message handed to processIncomingMessage gets a routing
\* outcome, also one that arrives while an earlier message of its conversation
\* is being routed: no call ends without an outcome, every invocation becomes
\* a routing run, and the conversation's in-flight marker is held until its
\* run ends and is released when it ends.
C39_EveryMessageRouted ==
    [][/\ \A c \in ConvIds :
             DetachedProcessIncomingMessage(c) => last'.outcome \in RoutingOutcomes
       /\ \A i \in 1..MaxRuns, c \in ConvIds :
             RouteEnter(i, c) => procs'[i].kind = "route" /\ procs'[i].conv = c
       /\ \A i \in 1..MaxRuns :
             procs[i].kind = "route"
                => IF procs'[i] = Idle
                   THEN /\ procs[i].conv \notin processingQueue'
                        /\ last'.outcome \in RoutingOutcomes
                   ELSE procs[i].conv \in processingQueue']_vars

\* C39: a message arrived while an earlier message of conversation 1 was being
\* routed: its call returned with no outcome and took the marker with it; the
\* earlier run is still in flight.
C39_SecondMessageSkipped ==
    /\ last.op = "skip" /\ last.conv = 1
    /\ \E i \in 1..MaxRuns : procs[i].kind = "route" /\ procs[i].conv = 1
    /\ 1 \notin processingQueue

\* ------------------------------------------ PENDING means nobody assigned
\* C40: in every state with no handler in flight, a PENDING conversation has
\* no active ConversationAgent row: routing that finds no agent, a transfer
\* and a reopen all leave the conversation without an active assignment.
C40_PendingHasNoActiveAssignment ==
    Settled
       => \A c \in ConvIds :
             conversations[c].status = "PENDING"
                => ActiveAssignments(conversationAgents, c) = {}

\* C40: a conversation with an active assignment has just been reopened: it
\* is PENDING and the assignment is still active.
C40_ReopenedWithActiveAssignment ==
    /\ Settled
    /\ last.op = "reopen" /\ last.ok
    /\ conversations[last.conv].status = "PENDING"
    /\ ActiveAssignments(conversationAgents, last.conv) # {}

====
